---- MODULE Spec2Model ----
(***************************************************************************)
(* The playback transport controller of src/src/stores/player.ts.  The    *)
(* file holds two definitions of the player store: the first one          *)
(* (lines 17-332, volume fades and audioDelay) is modelled by the         *)
(* definitions ending in 1, the second one (lines 346-692, debounce timer  *)
(* and cold start) by the definitions ending in 2.  The variable store    *)
(* tells which of the two a behaviour of Spec runs.                       *)
(* The engine switch of the second definition (lines 388-479) is explored *)
(* by SpecEngine.                                                          *)
(*                                                                         *)
(* JavaScript runs one callback at a time: a step of the model is one     *)
(* callback run to its next real suspension point (a timer, an animation  *)
(* frame, the completion of a backend call, a backend event).  Awaiting   *)
(* a promise that is already settled does not let any other callback in,  *)
(* so it does not end a step.                                              *)
(***************************************************************************)
EXTENDS Integers, Sequences, FiniteSets

\* ------------------------------------------------------------- bounds
MaxCalls == 2        \* user operations issued in one behaviour
MaxSession == 2      \* cap of playSessionId
MaxDelta == 2        \* longest time between two clock frames
FadeSteps == 2       \* frames a volume fade takes at most
TicksPerSecond == 4  \* resolution of the times of the seek-end scenario

\* ------------------------------------------------------------- inputs
Paths == {1, 2}                \* file paths of importable tracks
\* duration estimate carried by the import-track event of path p
ImportDuration(p) == IF p = 1 THEN 2 ELSE 0
LoadDurations == {0, 4}        \* durations answered by player_load_track
Percents == {0, 50, 100}       \* seek targets
Volumes == {50, 80}            \* values of the volume slider
Devices == {0, 1}              \* 0 is 'Default'
ChannelModes == {2}            \* channel counts
SeekPayloads == {0, 1}         \* positions carried by seek-end

VARIABLES
  isPlaying, isPaused, volume, progress, currentTime, playMode,
  isDragging, isBuffering, isSeeking, isFading, playSessionId,
  activeDevice, queue, currentIndex,
  rafId,        \* "null", "pending" (names a scheduled frame) or "stale"
  rafCount,     \* number of scheduled progress-loop frames
  frameAge,     \* performance.now() - lastFrameTime
  hasStarted, hasAudioInitialized,
  actionTimeoutId,  \* the pending debounce timer's closure, or NoTimer
  volumeTimers,     \* pending setTimeout(.., 100) volume refreshes
  tasks,        \* suspended asynchronous continuations
  calls,        \* user operations issued so far
  issued,       \* backend commands issued by the last step
  backend,      \* the audio backend: [state, loadIssued]
  unhandled,    \* operations whose promise rejected
  store,        \* which of the two store definitions runs: 1 or 2
  activeEngine, isDownloadingFFmpeg, ffmpegProgress,
  backendEngine \* the backend's engines: [current, installed, job, successDue]

storeVars == <<isPlaying, isPaused, volume, progress, currentTime, playMode,
               isDragging, isBuffering, isSeeking, isFading, playSessionId,
               activeDevice, queue, currentIndex>>
clockVars == <<rafId, rafCount, frameAge>>
store2Vars == <<hasStarted, hasAudioInitialized, actionTimeoutId, volumeTimers>>
envVars == <<tasks, calls, issued, backend, unhandled>>
engineVars == <<activeEngine, isDownloadingFFmpeg, ffmpegProgress, backendEngine>>
vars == <<storeVars, clockVars, store2Vars, envVars, store, engineVars>>

NoTimer == [kind |-> "none", id |-> 0, flag |-> FALSE, mySession |-> 0]

\* ------------------------------------------------------------ helpers
currentTrack == IF currentIndex >= 0 /\ currentIndex < Len(queue)
                THEN queue[currentIndex + 1] ELSE [path |-> 0, duration |-> 0]
hasCurrentTrack == currentIndex >= 0 /\ currentIndex < Len(queue)

Cmd(name, arg, stale) == [name |-> name, arg |-> arg, stale |-> stale]

\* notifyUI.value(message, type), recorded among the calls a step makes
Notify(type) == [name |-> "notifyUI", arg |-> type, stale |-> FALSE]

\* A suspended continuation: the operation, the await it is suspended at,
\* and the locals its closure captured.
Task(op, pc, id, sess, flag, arg) ==
  [op |-> op, pc |-> pc, id |-> id, mySession |-> sess, flag |-> flag,
   arg |-> arg, startVol |-> 0, endVol |-> 0, k |-> 0, engine |-> ""]

\* the ease of a tick whose p is not capped at 1.0: the last frame comes
\* after the fade's duration and sin has passed its peak
Ease_uncapped(k, n) ==
  IF k >= n THEN 951
  ELSE IF k = 0 THEN 0
  ELSE IF 2 * k = n THEN 707
  ELSE IF 3 * k = n THEN 500
  ELSE IF 3 * k = 2 * n THEN 866
  ELSE IF 4 * k = n THEN 383
  ELSE IF 4 * k = 3 * n THEN 924
  ELSE IF 5 * k = n THEN 309
  ELSE IF 5 * k = 2 * n THEN 588
  ELSE IF 5 * k = 3 * n THEN 809
  ELSE 951

\* sin(p * PI / 2) in thousandths, for p = k / n
Ease(k, n) ==
  IF k >= n THEN 1000
  ELSE IF k = 0 THEN 0
  ELSE IF 2 * k = n THEN 707
  ELSE IF 3 * k = n THEN 500
  ELSE IF 3 * k = 2 * n THEN 866
  ELSE IF 4 * k = n THEN 383
  ELSE IF 4 * k = 3 * n THEN 924
  ELSE IF 5 * k = n THEN 309
  ELSE IF 5 * k = 2 * n THEN 588
  ELSE IF 5 * k = 3 * n THEN 809
  ELSE 951

\* The level a fade sends at step k, in 1/100000 of full scale
FadeLevel(t, k) == t.startVol * 1000 + (t.endVol - t.startVol) * Ease(k, FadeSteps)
VolLevel(v) == v * 1000

\* The audio backend, as far as the controller's commands determine it: its
\* transport once a command has completed, whether a player_load_track has
\* been sent to it, and the last transport command sent to it
BackendAfter(name, b) ==
  IF name \in {"player_load_track", "player_play"} THEN [b EXCEPT !.state = "playing"]
  ELSE IF name = "player_pause" THEN [b EXCEPT !.state = "paused"]
  ELSE b
BackendSent(name, b) ==
  IF name = "player_load_track"
  THEN [b EXCEPT !.loadIssued = TRUE, !.lastTransport = "player_play"]
  ELSE IF name \in {"player_play", "player_pause"} THEN [b EXCEPT !.lastTransport = name]
  ELSE b

\* stopProgressLoop, on the clock's (rafId, rafCount)
StopCount(id, n) == IF id = "pending" THEN n - 1 ELSE n
\* startProgressLoop that requests a frame without stopProgressLoop first
StartCount_stacking(id, n) == n + 1
\* requestAnimationFrame(loop) stored in rafId
StartCount(id, n) == StopCount(id, n) + 1

stopProgressLoop ==
  /\ rafCount' = StopCount(rafId, rafCount)
  /\ rafId' = "null"
  /\ frameAge' = 0

startProgressLoop ==
  /\ rafCount' = StartCount(rafId, rafCount)
  /\ rafId' = "pending"
  /\ frameAge' = 0

\* the engine state after onMounted's syncEngine, no download under way
EngineIdle ==
  /\ activeEngine = "galaxy" /\ isDownloadingFFmpeg = FALSE /\ ffmpegProgress = 0
  /\ backendEngine = [current |-> "galaxy", installed |-> FALSE, job |-> "idle",
                      successDue |-> FALSE]

\* ---------------------------------------------------------------- Init
Init ==
  /\ isPlaying = FALSE /\ isPaused = FALSE /\ volume = 80
  /\ progress = 0 /\ currentTime = 0 /\ playMode = "sequence"
  /\ isDragging = FALSE /\ isBuffering = FALSE /\ isSeeking = FALSE
  /\ isFading = FALSE /\ playSessionId = 0
  /\ activeDevice = 0 /\ queue = <<>> /\ currentIndex = 0
  /\ rafId = "null" /\ rafCount = 0 /\ frameAge = 0
  /\ hasStarted = FALSE /\ hasAudioInitialized = FALSE
  /\ actionTimeoutId = NoTimer /\ volumeTimers = 0
  /\ tasks = {} /\ calls = 0 /\ issued = <<>>
  /\ backend = [state |-> "idle", loadIssued |-> FALSE, lastTransport |-> "none"] /\ unhandled = {}
  /\ store \in {1, 2}
  /\ EngineIdle

\* ------------------------------------------------ events of both stores
\* the import-track listener without its test on the path
importTrack_noDedup(p) ==
  /\ queue' = Append(queue, [path |-> p, duration |-> ImportDuration(p)])
  /\ issued' = <<>>
  /\ UNCHANGED <<isPlaying, isPaused, volume, progress, currentTime, playMode,
                 isDragging, isBuffering, isSeeking, isFading, playSessionId,
                 activeDevice, currentIndex>>
  /\ UNCHANGED <<clockVars, store2Vars, tasks, calls, backend, unhandled>>

\* listen('import-track')
importTrack(p) ==
  /\ queue' = IF \E i \in 1..Len(queue) : queue[i].path = p
              THEN queue ELSE Append(queue, [path |-> p, duration |-> ImportDuration(p)])
  /\ issued' = <<>>
  /\ UNCHANGED <<isPlaying, isPaused, volume, progress, currentTime, playMode,
                 isDragging, isBuffering, isSeeking, isFading, playSessionId,
                 activeDevice, currentIndex>>
  /\ UNCHANGED <<clockVars, store2Vars, tasks, calls, backend, unhandled>>

\* ============================================================ store 1
\* loadAndPlay that forgets isPaused.value = false
loadAndPlay1Sync_keepsPaused(id, n) ==
  /\ playSessionId < MaxSession
  /\ playSessionId' = playSessionId + 1
  /\ rafCount' = StopCount(id, n) /\ rafId' = "null" /\ frameAge' = 0
  /\ isPlaying' = TRUE
  /\ isBuffering' = TRUE /\ isSeeking' = FALSE
  /\ currentTime' = 0 /\ progress' = 0
  /\ tasks' = tasks \cup {Task("loadAndPlay", "delay", 0, playSessionId + 1, FALSE, 0)}
  /\ issued' = <<>>
  /\ UNCHANGED <<isPaused, volume, playMode, isDragging, isFading, activeDevice, queue>>
  /\ UNCHANGED <<store2Vars, backend, unhandled>>

\* loadAndPlay from its first statement to await audioDelay(); the caller
\* has set currentIndex' and hands in the clock as it left it.
loadAndPlay1Sync(id, n) ==
  /\ playSessionId < MaxSession
  /\ playSessionId' = playSessionId + 1
  /\ rafCount' = StopCount(id, n) /\ rafId' = "null" /\ frameAge' = 0
  /\ isPlaying' = TRUE /\ isPaused' = FALSE
  /\ isBuffering' = TRUE /\ isSeeking' = FALSE
  /\ currentTime' = 0 /\ progress' = 0
  /\ tasks' = tasks \cup {Task("loadAndPlay", "delay", 0, playSessionId + 1, FALSE, 0)}
  /\ issued' = <<>>
  /\ UNCHANGED <<volume, playMode, isDragging, isFading, activeDevice, queue>>
  /\ UNCHANGED <<store2Vars, backend, unhandled>>

loadAndPlay1 ==
  /\ calls < MaxCalls
  /\ IF hasCurrentTrack
     THEN /\ calls' = calls + 1
          /\ currentIndex' = currentIndex
          /\ loadAndPlay1Sync(rafId, rafCount)
     ELSE UNCHANGED vars

\* await audioDelay() is over: the session check, then player_set_volume
loadAndPlay1_afterDelay(t) ==
  /\ t.op = "loadAndPlay" /\ t.pc = "delay"
  /\ IF t.mySession # playSessionId
     THEN /\ tasks' = tasks \ {t}
          /\ issued' = <<>>
     ELSE /\ tasks' = (tasks \ {t}) \cup {[t EXCEPT !.pc = "set_volume"]}
          /\ issued' = <<Cmd("player_set_volume", 0, FALSE)>>
  /\ UNCHANGED <<storeVars, clockVars, store2Vars, calls, backend, unhandled>>

\* the catch block of loadAndPlay without its session check
loadAndPlay1_catch_unchecked(t) ==
  /\ tasks' = tasks \ {t}
  /\ isPlaying' = FALSE /\ isBuffering' = FALSE
  /\ issued' = <<Cmd("player_set_volume", VolLevel(volume), FALSE), Notify("error")>>
  /\ UNCHANGED <<isPaused, volume, progress, currentTime, playMode, isDragging,
                 isSeeking, isFading, playSessionId, activeDevice, queue,
                 currentIndex>>
  /\ UNCHANGED <<clockVars, store2Vars, calls, backend, unhandled>>

\* the catch block of loadAndPlay
loadAndPlay1_catch(t) ==
  /\ tasks' = tasks \ {t}
  /\ IF t.mySession = playSessionId
     THEN /\ isPlaying' = FALSE /\ isBuffering' = FALSE
          /\ issued' = <<Cmd("player_set_volume", VolLevel(volume), FALSE), Notify("error")>>
     ELSE /\ UNCHANGED <<isPlaying, isBuffering>>
          /\ issued' = <<>>
  /\ UNCHANGED <<isPaused, volume, progress, currentTime, playMode, isDragging,
                 isSeeking, isFading, playSessionId, activeDevice, queue,
                 currentIndex>>
  /\ UNCHANGED <<clockVars, store2Vars, calls, backend, unhandled>>

\* player_set_volume answered: player_load_track follows without a check
loadAndPlay1_afterSetVolume(t, ok) ==
  /\ t.op = "loadAndPlay" /\ t.pc = "set_volume"
  /\ IF ok
     THEN /\ tasks' = (tasks \ {t}) \cup {[t EXCEPT !.pc = "load_track"]}
          /\ issued' = <<Cmd("player_load_track", currentTrack.path,
                             t.mySession # playSessionId)>>
          /\ backend' = BackendSent("player_load_track", backend)
          /\ UNCHANGED <<storeVars, clockVars, store2Vars, calls, unhandled>>
     ELSE loadAndPlay1_catch(t)

\* player_load_track answered with a duration
loadAndPlay1_afterLoad(t, ok, duration) ==
  /\ t.op = "loadAndPlay" /\ t.pc = "load_track"
  /\ IF ok
     THEN /\ backend' = BackendAfter("player_load_track", backend)
          /\ issued' = <<>>
          /\ IF t.mySession # playSessionId
             THEN /\ tasks' = tasks \ {t}
                  /\ UNCHANGED <<storeVars, clockVars>>
             ELSE /\ queue' = IF duration > 0
                              THEN [queue EXCEPT ![currentIndex + 1].duration = duration]
                              ELSE queue
                  /\ isBuffering' = FALSE
                  /\ startProgressLoop
                  /\ isFading' = TRUE
                  /\ tasks' = (tasks \ {t}) \cup
                       {[t EXCEPT !.pc = "fade", !.startVol = 0, !.endVol = volume, !.k = 0]}
                  /\ UNCHANGED <<isPlaying, isPaused, volume, progress, currentTime,
                                 playMode, isDragging, isSeeking, playSessionId,
                                 activeDevice, currentIndex>>
          /\ UNCHANGED <<store2Vars, calls, unhandled>>
     ELSE loadAndPlay1_catch(t)

\* one frame of applyFade's tick
applyFade_tick(t, k) ==
  /\ t.pc = "fade" /\ k > t.k /\ k <= FadeSteps
  /\ issued' = <<Cmd("player_set_volume", FadeLevel(t, k), FALSE)>>
  /\ isFading' = IF k < FadeSteps THEN isFading ELSE FALSE

loadAndPlay1_fade(t, k) ==
  /\ t.op = "loadAndPlay"
  /\ applyFade_tick(t, k)
  /\ tasks' = IF k < FadeSteps THEN (tasks \ {t}) \cup {[t EXCEPT !.k = k]}
              ELSE tasks \ {t}
  /\ UNCHANGED <<isPlaying, isPaused, volume, progress, currentTime, playMode,
                 isDragging, isBuffering, isSeeking, playSessionId,
                 activeDevice, queue, currentIndex>>
  /\ UNCHANGED <<clockVars, store2Vars, calls, backend, unhandled>>

\* the index nextTrack of the first store moves to
NextIndex1 == (currentIndex + 1) % Len(queue)

\* prevTrack that stays on the first track instead of wrapping to the last
PrevIndex_clamped == IF currentIndex > 0 THEN currentIndex - 1 ELSE 0

\* the index prevTrack moves to, in both stores
PrevIndex == IF currentIndex > 0 THEN currentIndex - 1 ELSE Len(queue) - 1

nextTrack1 ==
  /\ calls < MaxCalls
  /\ IF Len(queue) = 0 THEN UNCHANGED vars
     ELSE /\ calls' = calls + 1
          /\ currentIndex' = NextIndex1
          /\ loadAndPlay1Sync(rafId, rafCount)

\* prevTrack that steps back without wrapping at the first track
prevTrack1_noWrap ==
  /\ calls < MaxCalls
  /\ IF Len(queue) = 0 THEN UNCHANGED vars
     ELSE /\ calls' = calls + 1
          /\ currentIndex' = currentIndex - 1
          /\ loadAndPlay1Sync(rafId, rafCount)

prevTrack1 ==
  /\ calls < MaxCalls
  /\ IF Len(queue) = 0 THEN UNCHANGED vars
     ELSE /\ calls' = calls + 1
          /\ currentIndex' = PrevIndex
          /\ loadAndPlay1Sync(rafId, rafCount)

\* playTrack(track) for the track at index idx of the queue
playTrack1(idx) ==
  /\ calls < MaxCalls
  /\ idx < Len(queue)
  /\ calls' = calls + 1
  /\ currentIndex' = idx
  /\ loadAndPlay1Sync(rafId, rafCount)

toggleMode ==
  /\ calls < MaxCalls
  /\ calls' = calls + 1
  /\ playMode' = IF playMode = "sequence" THEN "loop"
                 ELSE IF playMode = "loop" THEN "shuffle" ELSE "sequence"
  /\ issued' = <<>>
  /\ UNCHANGED <<isPlaying, isPaused, volume, progress, currentTime,
                 isDragging, isBuffering, isSeeking, isFading, playSessionId,
                 activeDevice, queue, currentIndex>>
  /\ UNCHANGED <<clockVars, store2Vars, tasks, backend, unhandled>>

\* ------------------------------------------------------- togglePlay
\* togglePlay whose pause branch goes to the backend without the fade-out
togglePlay1_noFadeOut ==
  /\ calls < MaxCalls
  /\ IF ~hasCurrentTrack THEN UNCHANGED vars
     ELSE
       /\ calls' = calls + 1
       /\ IF isPlaying
          THEN /\ isPlaying' = FALSE /\ isPaused' = TRUE
               /\ stopProgressLoop
               /\ isFading' = isFading
               /\ tasks' = tasks \cup {Task("togglePlay", "delay", calls + 1, 0, TRUE, 0)}
               /\ issued' = <<>>
               /\ UNCHANGED <<volume, progress, currentTime, playMode, isDragging,
                              isBuffering, isSeeking, playSessionId, activeDevice,
                              queue, currentIndex>>
               /\ UNCHANGED <<store2Vars, backend, unhandled>>
          ELSE IF isPaused
          THEN /\ isPlaying' = TRUE /\ isPaused' = FALSE
               /\ startProgressLoop
               /\ tasks' = tasks \cup {Task("togglePlay", "delay", calls + 1, 0, FALSE, 0)}
               /\ issued' = <<>>
               /\ UNCHANGED <<volume, progress, currentTime, playMode, isDragging,
                              isBuffering, isSeeking, isFading, playSessionId,
                              activeDevice, queue, currentIndex>>
               /\ UNCHANGED <<store2Vars, backend, unhandled>>
          ELSE /\ currentIndex' = currentIndex
               /\ loadAndPlay1Sync(rafId, rafCount)

\* togglePlay of the first store up to its first await
togglePlay1 ==
  /\ calls < MaxCalls
  /\ IF ~hasCurrentTrack THEN UNCHANGED vars
     ELSE
       /\ calls' = calls + 1
       /\ IF isPlaying
          THEN /\ isPlaying' = FALSE /\ isPaused' = TRUE
               /\ stopProgressLoop
               /\ isFading' = TRUE
               /\ tasks' = tasks \cup
                    {[Task("togglePlay", "fade", calls + 1, 0, TRUE, 0)
                        EXCEPT !.startVol = volume, !.endVol = 0]}
               /\ issued' = <<>>
               /\ UNCHANGED <<volume, progress, currentTime, playMode, isDragging,
                              isBuffering, isSeeking, playSessionId, activeDevice,
                              queue, currentIndex>>
               /\ UNCHANGED <<store2Vars, backend, unhandled>>
          ELSE IF isPaused
          THEN /\ isPlaying' = TRUE /\ isPaused' = FALSE
               /\ startProgressLoop
               /\ tasks' = tasks \cup {Task("togglePlay", "delay", calls + 1, 0, FALSE, 0)}
               /\ issued' = <<>>
               /\ UNCHANGED <<volume, progress, currentTime, playMode, isDragging,
                              isBuffering, isSeeking, isFading, playSessionId,
                              activeDevice, queue, currentIndex>>
               /\ UNCHANGED <<store2Vars, backend, unhandled>>
          ELSE /\ currentIndex' = currentIndex
               /\ loadAndPlay1Sync(rafId, rafCount)

\* a frame of the fade of togglePlay: the fade-out is followed by
\* await audioDelay(), the fade-in ends the operation
togglePlay1_fade(t, k) ==
  /\ t.op = "togglePlay"
  /\ applyFade_tick(t, k)
  /\ tasks' = IF k < FadeSteps THEN (tasks \ {t}) \cup {[t EXCEPT !.k = k]}
              ELSE IF t.flag THEN (tasks \ {t}) \cup {[t EXCEPT !.pc = "delay", !.k = k]}
              ELSE tasks \ {t}
  /\ UNCHANGED <<isPlaying, isPaused, volume, progress, currentTime, playMode,
                 isDragging, isBuffering, isSeeking, playSessionId,
                 activeDevice, queue, currentIndex>>
  /\ UNCHANGED <<clockVars, store2Vars, calls, backend, unhandled>>

\* await audioDelay() is over: player_pause or player_play
togglePlay1_afterDelay(t) ==
  /\ t.op = "togglePlay" /\ t.pc = "delay"
  /\ tasks' = (tasks \ {t}) \cup
        {[t EXCEPT !.pc = IF t.flag THEN "player_pause" ELSE "player_play"]}
  /\ issued' = <<Cmd(IF t.flag THEN "player_pause" ELSE "player_play", 0, FALSE)>>
  /\ backend' = BackendSent(IF t.flag THEN "player_pause" ELSE "player_play", backend)
  /\ UNCHANGED <<storeVars, clockVars, store2Vars, calls, unhandled>>

\* player_pause answered: the pause branch is over
togglePlay1_afterPause(t, ok) ==
  /\ t.op = "togglePlay" /\ t.pc = "player_pause"
  /\ tasks' = tasks \ {t}
  /\ issued' = <<>>
  /\ backend' = IF ok THEN BackendAfter("player_pause", backend) ELSE backend
  /\ unhandled' = IF ok THEN unhandled ELSE unhandled \cup {"togglePlay"}
  /\ UNCHANGED <<storeVars, clockVars, store2Vars, calls>>

\* player_play answered: the fade-in starts
togglePlay1_afterPlay(t, ok) ==
  /\ t.op = "togglePlay" /\ t.pc = "player_play"
  /\ issued' = <<>>
  /\ IF ok
     THEN /\ backend' = BackendAfter("player_play", backend)
          /\ isFading' = TRUE
          /\ tasks' = (tasks \ {t}) \cup
               {[t EXCEPT !.pc = "fade", !.startVol = 0, !.endVol = volume, !.k = 0]}
          /\ UNCHANGED unhandled
     ELSE /\ tasks' = tasks \ {t}
          /\ unhandled' = unhandled \cup {"togglePlay"}
          /\ UNCHANGED <<backend, isFading>>
  /\ UNCHANGED <<isPlaying, isPaused, volume, progress, currentTime, playMode,
                 isDragging, isBuffering, isSeeking, playSessionId,
                 activeDevice, queue, currentIndex>>
  /\ UNCHANGED <<clockVars, store2Vars, calls>>

\* ------------------------------------------------------------ seekTo
\* seekTo that takes every call to have been made while playing
seekTo1Sync_alwaysPlaying(percent, more) ==
  /\ hasCurrentTrack /\ currentTrack.duration > 0
  /\ stopProgressLoop
  /\ isSeeking' = TRUE /\ isBuffering' = TRUE
  /\ progress' = percent
  /\ currentTime' = (percent * currentTrack.duration) \div 100
  /\ tasks' = tasks \cup more \cup
       {Task("seekTo", "delay", calls + 1, playSessionId,
             TRUE, (percent * currentTrack.duration) \div 100)}
  /\ issued' = <<>>
  /\ UNCHANGED <<isPlaying, isPaused, volume, playMode, isFading,
                 playSessionId, activeDevice, queue, currentIndex>>
  /\ UNCHANGED <<store2Vars, backend, unhandled>>

\* seekTo from its first statement to await audioDelay(); more holds the
\* continuations the caller starts beside it
seekTo1Sync(percent, more) ==
  /\ hasCurrentTrack /\ currentTrack.duration > 0
  /\ stopProgressLoop
  /\ isSeeking' = TRUE /\ isBuffering' = TRUE
  /\ progress' = percent
  /\ currentTime' = (percent * currentTrack.duration) \div 100
  /\ tasks' = tasks \cup more \cup
       {Task("seekTo", "delay", calls + 1, playSessionId,
             isPlaying /\ ~isPaused, (percent * currentTrack.duration) \div 100)}
  /\ issued' = <<>>
  /\ UNCHANGED <<isPlaying, isPaused, volume, playMode, isFading,
                 playSessionId, activeDevice, queue, currentIndex>>
  /\ UNCHANGED <<store2Vars, backend, unhandled>>

seekTo1(percent) ==
  /\ calls < MaxCalls
  /\ IF hasCurrentTrack /\ currentTrack.duration > 0
     THEN /\ calls' = calls + 1
          /\ seekTo1Sync(percent, {})
          /\ UNCHANGED isDragging
     ELSE UNCHANGED vars

seekTo1_afterDelay(t) ==
  /\ t.op = "seekTo" /\ t.pc = "delay"
  /\ tasks' = (tasks \ {t}) \cup {[t EXCEPT !.pc = "player_seek"]}
  /\ issued' = <<Cmd("player_seek", t.arg, t.mySession # playSessionId)>>
  /\ UNCHANGED <<storeVars, clockVars, store2Vars, calls, backend, unhandled>>

\* the catch block of seekTo without its session check
seekTo1_catch_unchecked(t) ==
  /\ tasks' = tasks \ {t}
  /\ issued' = <<>>
  /\ isSeeking' = FALSE /\ isBuffering' = FALSE
  /\ UNCHANGED <<isPlaying, isPaused, volume, progress, currentTime, playMode,
                 isDragging, isFading, playSessionId, activeDevice, queue,
                 currentIndex>>
  /\ UNCHANGED <<clockVars, store2Vars, calls, backend, unhandled>>

\* the catch block of seekTo
seekTo1_catch(t) ==
  /\ tasks' = tasks \ {t}
  /\ issued' = <<>>
  /\ IF t.mySession = playSessionId
     THEN isSeeking' = FALSE /\ isBuffering' = FALSE
     ELSE UNCHANGED <<isSeeking, isBuffering>>
  /\ UNCHANGED <<isPlaying, isPaused, volume, progress, currentTime, playMode,
                 isDragging, isFading, playSessionId, activeDevice, queue,
                 currentIndex>>
  /\ UNCHANGED <<clockVars, store2Vars, calls, backend, unhandled>>

seekTo1_afterSeek(t, ok) ==
  /\ t.op = "seekTo" /\ t.pc = "player_seek"
  /\ IF ~ok THEN seekTo1_catch(t)
     ELSE IF t.mySession # playSessionId
     THEN /\ tasks' = tasks \ {t}
          /\ issued' = <<>>
          /\ UNCHANGED <<storeVars, clockVars, store2Vars, calls, backend, unhandled>>
     ELSE /\ isSeeking' = FALSE /\ isBuffering' = FALSE
          /\ IF t.flag
             THEN /\ startProgressLoop
                  /\ tasks' = tasks \ {t}
                  /\ issued' = <<>>
                  /\ UNCHANGED backend
             ELSE /\ UNCHANGED clockVars
                  /\ tasks' = (tasks \ {t}) \cup {[t EXCEPT !.pc = "player_pause"]}
                  /\ issued' = <<Cmd("player_pause", 0, FALSE)>>
                  /\ backend' = BackendSent("player_pause", backend)
          /\ UNCHANGED <<isPlaying, isPaused, volume, progress, currentTime,
                         playMode, isDragging, isFading, playSessionId,
                         activeDevice, queue, currentIndex>>
          /\ UNCHANGED <<store2Vars, calls, unhandled>>

seekTo1_afterPause(t, ok) ==
  /\ t.op = "seekTo" /\ t.pc = "player_pause"
  /\ IF ok
     THEN /\ tasks' = tasks \ {t}
          /\ issued' = <<>>
          /\ backend' = BackendAfter("player_pause", backend)
          /\ UNCHANGED <<storeVars, clockVars, store2Vars, calls, unhandled>>
     ELSE seekTo1_catch(t)

\* App.vue: the progress slider is moved, then released
onProgressInput ==
  /\ calls < MaxCalls
  /\ calls' = calls + 1
  /\ isDragging' = TRUE
  /\ issued' = <<>>
  /\ UNCHANGED <<isPlaying, isPaused, volume, progress, currentTime, playMode,
                 isBuffering, isSeeking, isFading, playSessionId,
                 activeDevice, queue, currentIndex>>
  /\ UNCHANGED <<clockVars, store2Vars, tasks, backend, unhandled>>

dragTimer(t) ==
  /\ t.op = "onProgressChange" /\ t.pc = "timer"
  /\ tasks' = tasks \ {t}
  /\ isDragging' = FALSE
  /\ issued' = <<>>
  /\ UNCHANGED <<isPlaying, isPaused, volume, progress, currentTime, playMode,
                 isBuffering, isSeeking, isFading, playSessionId,
                 activeDevice, queue, currentIndex>>
  /\ UNCHANGED <<clockVars, store2Vars, calls, backend, unhandled>>

onProgressChange1(percent) ==
  /\ calls < MaxCalls
  /\ calls' = calls + 1
  /\ UNCHANGED isDragging
  /\ IF hasCurrentTrack /\ currentTrack.duration > 0
     THEN seekTo1Sync(percent, {Task("onProgressChange", "timer", calls + 1, 0, FALSE, 0)})
     ELSE /\ tasks' = tasks \cup {Task("onProgressChange", "timer", calls + 1, 0, FALSE, 0)}
          /\ issued' = <<>>
          /\ UNCHANGED <<isPlaying, isPaused, volume, progress, currentTime, playMode,
                         isBuffering, isSeeking, isFading, playSessionId,
                         activeDevice, queue, currentIndex>>
          /\ UNCHANGED <<clockVars, store2Vars, backend, unhandled>>

\* ------------------------------------------- device / channel switch
\* performWithStateCheck up to await audioDelay(), for setOutputDevice
\* (arg is the device) or setChannelMode (arg is the mode)
performWithStateCheck1(op, arg) ==
  /\ calls < MaxCalls
  /\ calls' = calls + 1
  /\ tasks' = tasks \cup {Task(op, "delay", calls + 1, 0, isPaused \/ ~isPlaying, arg)}
  /\ issued' = <<>>
  /\ UNCHANGED <<storeVars, clockVars, store2Vars, backend, unhandled>>

setOutputDevice1(device) == performWithStateCheck1("setOutputDevice", device)
setChannelMode1(mode) == performWithStateCheck1("setChannelMode", mode)

\* await audioDelay() is over: action() issues its first command
performWithStateCheck1_afterDelay(t) ==
  /\ t.op \in {"setOutputDevice", "setChannelMode"} /\ t.pc = "delay"
  /\ tasks' = (tasks \ {t}) \cup {[t EXCEPT !.pc = "action"]}
  /\ issued' = <<Cmd(IF t.op = "setOutputDevice" THEN "set_output_device"
                     ELSE "player_set_channels", t.arg, FALSE)>>
  /\ UNCHANGED <<storeVars, clockVars, store2Vars, calls, backend, unhandled>>

\* action() has returned, said being what it told the notifier on its way:
\* if (wasPaused) await invoke('player_pause')
performWithStateCheck1_afterAction(t, said) ==
  /\ tasks' = IF t.flag THEN (tasks \ {t}) \cup {[t EXCEPT !.pc = "player_pause"]}
              ELSE tasks \ {t}
  /\ issued' = IF t.flag THEN said \o <<Cmd("player_pause", 0, FALSE)>> ELSE said
  /\ backend' = IF t.flag THEN BackendSent("player_pause", backend) ELSE backend

\* what the action of setOutputDevice tells the notifier once
\* set_output_device has been answered
DeviceNotice(t, ok) ==
  IF t.op # "setOutputDevice" THEN <<>>
  ELSE IF ok THEN <<Notify("info")>> ELSE <<Notify("error")>>

\* action() threw: the rejection leaves performWithStateCheck and its caller
performWithStateCheck1_reject(t) ==
  /\ tasks' = tasks \ {t}
  /\ issued' = <<>>
  /\ unhandled' = unhandled \cup {t.op}
  /\ UNCHANGED backend

\* set_output_device or player_set_channels answered
performWithStateCheck1_action(t, ok) ==
  /\ t.op \in {"setOutputDevice", "setChannelMode"} /\ t.pc = "action"
  /\ activeDevice' = IF ok /\ t.op = "setOutputDevice" THEN t.arg ELSE activeDevice
  /\ IF ok
     THEN /\ IF hasCurrentTrack
             THEN /\ tasks' = (tasks \ {t}) \cup {[t EXCEPT !.pc = "player_seek"]}
                  /\ issued' = DeviceNotice(t, TRUE) \o
                                 <<Cmd("player_seek", currentTime, FALSE)>>
                  /\ UNCHANGED backend
             ELSE performWithStateCheck1_afterAction(t, DeviceNotice(t, TRUE))
          /\ UNCHANGED unhandled
     ELSE IF t.op = "setOutputDevice"
     THEN performWithStateCheck1_afterAction(t, DeviceNotice(t, FALSE)) /\ UNCHANGED unhandled
     ELSE performWithStateCheck1_reject(t)
  /\ UNCHANGED <<isPlaying, isPaused, volume, progress, currentTime, playMode,
                 isDragging, isBuffering, isSeeking, isFading, playSessionId,
                 queue, currentIndex>>
  /\ UNCHANGED <<clockVars, store2Vars, calls>>

\* the player_seek of action() answered
performWithStateCheck1_seek(t, ok) ==
  /\ t.op \in {"setOutputDevice", "setChannelMode"} /\ t.pc = "player_seek"
  /\ IF ok \/ t.op = "setOutputDevice"
     THEN performWithStateCheck1_afterAction(t, IF ok THEN <<>> ELSE <<Notify("error")>>)
          /\ UNCHANGED unhandled
     ELSE performWithStateCheck1_reject(t)
  /\ UNCHANGED <<storeVars, clockVars, store2Vars, calls>>

\* the closing player_pause answered
performWithStateCheck1_pause(t, ok) ==
  /\ t.op \in {"setOutputDevice", "setChannelMode"} /\ t.pc = "player_pause"
  /\ tasks' = tasks \ {t}
  /\ issued' = <<>>
  /\ IF ok
     THEN /\ backend' = BackendAfter("player_pause", backend)
          /\ isPlaying' = FALSE /\ isPaused' = TRUE
          /\ stopProgressLoop
          /\ UNCHANGED unhandled
     ELSE /\ unhandled' = unhandled \cup {t.op}
          /\ UNCHANGED <<isPlaying, isPaused, clockVars, backend>>
  /\ UNCHANGED <<volume, progress, currentTime, playMode, isDragging, isBuffering,
                 isSeeking, isFading, playSessionId, activeDevice, queue,
                 currentIndex>>
  /\ UNCHANGED <<store2Vars, calls>>

\* ------------------------------------------------------------ volume
\* the slider writes volume; watch(volume) forwards it unless a fade runs
setVolume1(v) ==
  /\ calls < MaxCalls
  /\ v # volume
  /\ calls' = calls + 1
  /\ volume' = v
  /\ issued' = IF isFading THEN <<>> ELSE <<Cmd("player_set_volume", VolLevel(v), FALSE)>>
  /\ UNCHANGED <<isPlaying, isPaused, progress, currentTime, playMode,
                 isDragging, isBuffering, isSeeking, isFading, playSessionId,
                 activeDevice, queue, currentIndex>>
  /\ UNCHANGED <<clockVars, store2Vars, tasks, backend, unhandled>>

\* ------------------------------------------------------ seek-end event
\* Math.abs(a - b) > 0.5, for times counted in 1/unit of a second
Drifted(unit, a, b) == 2 * (a - b) > unit \/ 2 * (b - a) > unit

\* the seek-end listener without the 0.5 s tolerance
seekEndIn_noTolerance(unit, payload) ==
  /\ calls < MaxCalls
  /\ calls' = calls + 1
  /\ currentTime' =
       IF isSeeking \/ isDragging \/ isBuffering THEN currentTime
       ELSE payload
  /\ issued' = <<>>
  /\ UNCHANGED <<isPlaying, isPaused, volume, progress, playMode,
                 isDragging, isBuffering, isSeeking, isFading, playSessionId,
                 activeDevice, queue, currentIndex>>
  /\ UNCHANGED <<clockVars, store2Vars, tasks, backend, unhandled>>

\* the seek-end listener, for times counted in 1/unit of a second
seekEndIn(unit, payload) ==
  /\ calls < MaxCalls
  /\ calls' = calls + 1
  /\ currentTime' =
       IF isSeeking \/ isDragging \/ isBuffering THEN currentTime
       ELSE IF Drifted(unit, currentTime, payload)
       THEN payload ELSE currentTime
  /\ issued' = <<>>
  /\ UNCHANGED <<isPlaying, isPaused, volume, progress, playMode,
                 isDragging, isBuffering, isSeeking, isFading, playSessionId,
                 activeDevice, queue, currentIndex>>
  /\ UNCHANGED <<clockVars, store2Vars, tasks, backend, unhandled>>

\* positions carried by seek-end in the seek-end scenario
SeekEndPayloads == 0..(TicksPerSecond + 3)

\* the seek-end listener where times are whole seconds
seekEnd(payload) == seekEndIn(1, payload)

\* ----------------------------------------------------- progress clock
\* time goes by while a frame of the progress loop is scheduled
timePasses ==
  /\ rafCount > 0 /\ frameAge < MaxDelta
  /\ frameAge' = frameAge + 1
  /\ issued' = <<>>
  /\ UNCHANGED <<storeVars, rafId, rafCount, store2Vars, tasks, calls, backend, unhandled>>

\* rafId once the scheduled frame has fired: a frame that rafId names
\* (own) leaves it stale
FiredId(own) == IF own THEN "stale" ELSE rafId

\* the progress loop without the isDragging lock
loop1_ignoresDragging(own) ==
  /\ rafCount > 0
  /\ IF own THEN rafId = "pending"
     ELSE rafCount > (IF rafId = "pending" THEN 1 ELSE 0)
  /\ IF ~isPlaying \/ isPaused \/ ~hasCurrentTrack
     THEN /\ rafId' = FiredId(own) /\ rafCount' = rafCount - 1
          /\ frameAge' = IF rafCount = 1 THEN 0 ELSE frameAge
          /\ issued' = <<>>
          /\ UNCHANGED <<storeVars, store2Vars, tasks, calls, backend, unhandled>>
     ELSE IF isBuffering \/ isSeeking
     THEN /\ rafId' = "pending" /\ rafCount' = rafCount
          /\ frameAge' = 0
          /\ issued' = <<>>
          /\ UNCHANGED <<storeVars, store2Vars, tasks, calls, backend, unhandled>>
     ELSE IF currentTime + frameAge >= currentTrack.duration /\ playMode # "loop"
     THEN /\ currentIndex' = NextIndex1
          /\ loadAndPlay1Sync(FiredId(own), rafCount - 1)
          /\ UNCHANGED calls
     ELSE /\ currentTime' = IF currentTime + frameAge >= currentTrack.duration
                            THEN 0 ELSE currentTime + frameAge
          /\ issued' = IF currentTime + frameAge >= currentTrack.duration
                       THEN <<Cmd("player_seek", 0, FALSE)>> ELSE <<>>
          /\ progress' = IF currentTrack.duration > 0
                         THEN (currentTime' * 100) \div currentTrack.duration
                         ELSE progress
          /\ rafId' = "pending" /\ rafCount' = rafCount
          /\ frameAge' = 0
          /\ UNCHANGED <<isPlaying, isPaused, volume, playMode, isDragging,
                         isBuffering, isSeeking, isFading, playSessionId,
                         activeDevice, queue, currentIndex>>
          /\ UNCHANGED <<store2Vars, tasks, calls, backend, unhandled>>

\* the callback loop(timestamp) of startProgressLoop; own tells whether
\* the frame that fires is the one rafId names
loop1(own) ==
  /\ rafCount > 0
  /\ IF own THEN rafId = "pending"
     ELSE rafCount > (IF rafId = "pending" THEN 1 ELSE 0)
  /\ IF ~isPlaying \/ isPaused \/ ~hasCurrentTrack
     THEN /\ rafId' = FiredId(own) /\ rafCount' = rafCount - 1
          /\ frameAge' = IF rafCount = 1 THEN 0 ELSE frameAge
          /\ issued' = <<>>
          /\ UNCHANGED <<storeVars, store2Vars, tasks, calls, backend, unhandled>>
     ELSE IF isDragging \/ isBuffering \/ isSeeking
     THEN /\ rafId' = "pending" /\ rafCount' = rafCount
          /\ frameAge' = 0
          /\ issued' = <<>>
          /\ UNCHANGED <<storeVars, store2Vars, tasks, calls, backend, unhandled>>
     ELSE IF currentTime + frameAge >= currentTrack.duration /\ playMode # "loop"
     THEN /\ currentIndex' = NextIndex1
          /\ loadAndPlay1Sync(FiredId(own), rafCount - 1)
          /\ UNCHANGED calls
     ELSE /\ currentTime' = IF currentTime + frameAge >= currentTrack.duration
                            THEN 0 ELSE currentTime + frameAge
          /\ issued' = IF currentTime + frameAge >= currentTrack.duration
                       THEN <<Cmd("player_seek", 0, FALSE)>> ELSE <<>>
          /\ progress' = IF currentTrack.duration > 0
                         THEN (currentTime' * 100) \div currentTrack.duration
                         ELSE progress
          /\ rafId' = "pending" /\ rafCount' = rafCount
          /\ frameAge' = 0
          /\ UNCHANGED <<isPlaying, isPaused, volume, playMode, isDragging,
                         isBuffering, isSeeking, isFading, playSessionId,
                         activeDevice, queue, currentIndex>>
          /\ UNCHANGED <<store2Vars, tasks, calls, backend, unhandled>>

\* ============================================================ store 2
\* executePlayLogic from isPlaying.value = true on
executePlayLogic_commit ==
  /\ isPlaying' = TRUE /\ isPaused' = FALSE
  /\ hasStarted' = TRUE
  /\ startProgressLoop
  /\ volumeTimers' = volumeTimers + 1

\* the setTimeout(.., 100) of executePlayLogic fires
volumeTimer2 ==
  /\ volumeTimers > 0
  /\ volumeTimers' = volumeTimers - 1
  /\ issued' = <<Cmd("player_set_volume", VolLevel(volume), FALSE)>>
  /\ UNCHANGED <<storeVars, clockVars, hasStarted, hasAudioInitialized,
                 actionTimeoutId, tasks, calls, backend, unhandled>>

togglePlay2 ==
  /\ calls < MaxCalls
  /\ IF ~hasCurrentTrack THEN UNCHANGED vars
     ELSE /\ calls' = calls + 1
          /\ isPlaying' = ~isPlaying
          /\ isPaused' = isPlaying
          /\ actionTimeoutId' = [kind |-> "toggle", id |-> calls + 1,
                                 flag |-> ~isPlaying, mySession |-> 0]
          /\ issued' = <<>>
          /\ UNCHANGED <<volume, progress, currentTime, playMode, isDragging,
                         isBuffering, isSeeking, isFading, playSessionId,
                         activeDevice, queue, currentIndex>>
          /\ UNCHANGED <<clockVars, hasStarted, hasAudioInitialized, volumeTimers,
                         tasks, backend, unhandled>>

\* the 50 ms timer of togglePlay fires: player_play or player_pause
togglePlay2_timer ==
  /\ actionTimeoutId.kind = "toggle"
  /\ actionTimeoutId' = NoTimer
  /\ tasks' = tasks \cup
       {Task("togglePlay", IF actionTimeoutId.flag THEN "player_play" ELSE "player_pause",
             actionTimeoutId.id, 0, actionTimeoutId.flag, 0)}
  /\ issued' = <<Cmd(IF actionTimeoutId.flag THEN "player_play" ELSE "player_pause",
                     0, FALSE)>>
  /\ backend' = BackendSent(IF actionTimeoutId.flag THEN "player_play" ELSE "player_pause",
                            backend)
  /\ UNCHANGED <<storeVars, clockVars, hasStarted, hasAudioInitialized, volumeTimers,
                 calls, unhandled>>

\* executePlayLogic(false): player_play answered
executePlayLogic_afterPlay(t, ok) ==
  /\ t.op = "togglePlay" /\ t.pc = "player_play"
  /\ tasks' = tasks \ {t}
  /\ issued' = <<>>
  /\ IF ok
     THEN /\ backend' = BackendAfter("player_play", backend)
          /\ executePlayLogic_commit
     ELSE UNCHANGED <<isPlaying, isPaused, hasStarted, clockVars, volumeTimers, backend>>
  /\ UNCHANGED <<volume, progress, currentTime, playMode, isDragging, isBuffering,
                 isSeeking, isFading, playSessionId, activeDevice, queue, currentIndex>>
  /\ UNCHANGED <<hasAudioInitialized, actionTimeoutId, calls, unhandled>>

\* executePauseLogic: player_pause answered
executePauseLogic_afterPause(t, ok) ==
  /\ t.op = "togglePlay" /\ t.pc = "player_pause"
  /\ tasks' = tasks \ {t}
  /\ issued' = <<>>
  /\ IF ok
     THEN /\ backend' = BackendAfter("player_pause", backend)
          /\ isPlaying' = FALSE /\ isPaused' = TRUE
          /\ stopProgressLoop
     ELSE UNCHANGED <<isPlaying, isPaused, clockVars, backend>>
  /\ UNCHANGED <<volume, progress, currentTime, playMode, isDragging, isBuffering,
                 isSeeking, isFading, playSessionId, activeDevice, queue, currentIndex>>
  /\ UNCHANGED <<store2Vars, calls, unhandled>>

\* loadAndPlay that forgets playSessionId.value++
loadAndPlay2Sync_sameSession(id, n) ==
  /\ playSessionId < MaxSession
  /\ playSessionId' = playSessionId
  /\ isPlaying' = TRUE /\ isPaused' = FALSE
  /\ isBuffering' = TRUE
  /\ currentTime' = 0 /\ progress' = 0
  /\ rafCount' = StopCount(id, n) /\ rafId' = "null" /\ frameAge' = 0
  /\ actionTimeoutId' = [kind |-> "load", id |-> 0, flag |-> FALSE,
                         mySession |-> playSessionId]
  /\ issued' = <<>>
  /\ UNCHANGED <<volume, playMode, isDragging, isSeeking, isFading, activeDevice, queue>>
  /\ UNCHANGED <<hasStarted, hasAudioInitialized, volumeTimers, tasks, backend, unhandled>>

\* loadAndPlay up to the setTimeout; the caller has set currentIndex' and
\* hands in the clock as it left it
loadAndPlay2Sync(id, n) ==
  /\ playSessionId < MaxSession
  /\ playSessionId' = playSessionId + 1
  /\ isPlaying' = TRUE /\ isPaused' = FALSE
  /\ isBuffering' = TRUE
  /\ currentTime' = 0 /\ progress' = 0
  /\ rafCount' = StopCount(id, n) /\ rafId' = "null" /\ frameAge' = 0
  /\ actionTimeoutId' = [kind |-> "load", id |-> 0, flag |-> FALSE,
                         mySession |-> playSessionId + 1]
  /\ issued' = <<>>
  /\ UNCHANGED <<volume, playMode, isDragging, isSeeking, isFading, activeDevice, queue>>
  /\ UNCHANGED <<hasStarted, hasAudioInitialized, volumeTimers, tasks, backend, unhandled>>

loadAndPlay2 ==
  /\ calls < MaxCalls
  /\ IF hasCurrentTrack
     THEN /\ calls' = calls + 1
          /\ currentIndex' = currentIndex
          /\ loadAndPlay2Sync(rafId, rafCount)
     ELSE UNCHANGED vars

\* the 50 ms timer of loadAndPlay fires: the cold-start wake-up or
\* player_load_track
loadAndPlay2_timer ==
  /\ actionTimeoutId.kind = "load"
  /\ actionTimeoutId' = NoTimer
  /\ tasks' = tasks \cup
       {Task("loadAndPlay", IF hasAudioInitialized THEN "load_track" ELSE "wake",
             0, actionTimeoutId.mySession, FALSE, 0)}
  /\ issued' = IF hasAudioInitialized
               THEN <<Cmd("player_load_track", currentTrack.path,
                          actionTimeoutId.mySession # playSessionId)>>
               ELSE <<Cmd("set_output_device", activeDevice,
                          actionTimeoutId.mySession # playSessionId)>>
  /\ backend' = IF hasAudioInitialized THEN BackendSent("player_load_track", backend)
                ELSE backend
  /\ UNCHANGED <<storeVars, clockVars, hasStarted, hasAudioInitialized, volumeTimers,
                 calls, unhandled>>

\* the catch block of the timer callback of loadAndPlay
loadAndPlay2_catch(t) ==
  /\ tasks' = tasks \ {t}
  /\ issued' = IF t.mySession = playSessionId THEN <<Notify("error")>> ELSE <<>>
  /\ IF t.mySession = playSessionId
     THEN isPlaying' = FALSE /\ isBuffering' = FALSE
     ELSE UNCHANGED <<isPlaying, isBuffering>>
  /\ UNCHANGED <<isPaused, volume, progress, currentTime, playMode, isDragging,
                 isSeeking, isFading, playSessionId, activeDevice, queue,
                 currentIndex>>
  /\ UNCHANGED <<clockVars, store2Vars, calls, backend, unhandled>>

\* the wake-up set_output_device answered
loadAndPlay2_afterWake(t, ok) ==
  /\ t.op = "loadAndPlay" /\ t.pc = "wake"
  /\ IF ok
     THEN /\ hasAudioInitialized' = TRUE
          /\ tasks' = (tasks \ {t}) \cup {[t EXCEPT !.pc = "load_track"]}
          /\ issued' = <<Cmd("player_load_track", currentTrack.path,
                             t.mySession # playSessionId)>>
          /\ backend' = BackendSent("player_load_track", backend)
          /\ UNCHANGED <<storeVars, clockVars, hasStarted, actionTimeoutId,
                         volumeTimers, calls, unhandled>>
     ELSE loadAndPlay2_catch(t)

\* player_load_track answered: executePlayLogic(true) sets the volume
loadAndPlay2_afterLoad(t, ok, duration) ==
  /\ t.op = "loadAndPlay" /\ t.pc = "load_track"
  /\ IF ok
     THEN /\ backend' = BackendAfter("player_load_track", backend)
          /\ IF t.mySession # playSessionId
             THEN /\ tasks' = tasks \ {t}
                  /\ issued' = <<>>
                  /\ UNCHANGED storeVars
             ELSE /\ queue' = IF duration > 0
                              THEN [queue EXCEPT ![currentIndex + 1].duration = duration]
                              ELSE queue
                  /\ isBuffering' = FALSE
                  /\ tasks' = (tasks \ {t}) \cup {[t EXCEPT !.pc = "set_volume"]}
                  /\ issued' = <<Cmd("player_set_volume", VolLevel(volume), FALSE)>>
                  /\ UNCHANGED <<isPlaying, isPaused, volume, progress, currentTime,
                                 playMode, isDragging, isSeeking, isFading,
                                 playSessionId, activeDevice, currentIndex>>
          /\ UNCHANGED <<clockVars, store2Vars, calls, unhandled>>
     ELSE loadAndPlay2_catch(t)

\* executePlayLogic(true): player_set_volume answered
executePlayLogic_afterSetVolume(t, ok) ==
  /\ t.op = "loadAndPlay" /\ t.pc = "set_volume"
  /\ tasks' = tasks \ {t}
  /\ issued' = <<>>
  /\ IF ok THEN executePlayLogic_commit
     ELSE UNCHANGED <<isPlaying, isPaused, hasStarted, clockVars, volumeTimers>>
  /\ UNCHANGED <<volume, progress, currentTime, playMode, isDragging, isBuffering,
                 isSeeking, isFading, playSessionId, activeDevice, queue, currentIndex>>
  /\ UNCHANGED <<hasAudioInitialized, actionTimeoutId, calls, backend, unhandled>>

\* the shuffle without its fallback for a draw equal to the current index
NextIndex2_noFallback(draw) ==
  IF playMode = "shuffle"
  THEN IF Len(queue) > 1 THEN draw ELSE currentIndex
  ELSE (currentIndex + 1) % Len(queue)

\* the index nextTrack moves to; draw is the shuffle's pseudo-random index
NextIndex2(draw) ==
  IF playMode = "shuffle"
  THEN IF Len(queue) > 1
       THEN IF draw = currentIndex THEN (draw + 1) % Len(queue) ELSE draw
       ELSE currentIndex
  ELSE (currentIndex + 1) % Len(queue)

nextTrack2(draw) ==
  /\ calls < MaxCalls
  /\ IF Len(queue) = 0 THEN draw = 0 /\ UNCHANGED vars
     ELSE /\ draw < Len(queue)
          /\ calls' = calls + 1
          /\ currentIndex' = NextIndex2(draw)
          /\ loadAndPlay2Sync(rafId, rafCount)

prevTrack2 ==
  /\ calls < MaxCalls
  /\ IF Len(queue) = 0 THEN UNCHANGED vars
     ELSE /\ calls' = calls + 1
          /\ currentIndex' = PrevIndex
          /\ loadAndPlay2Sync(rafId, rafCount)

playTrack2(idx) ==
  /\ calls < MaxCalls
  /\ idx < Len(queue)
  /\ calls' = calls + 1
  /\ currentIndex' = idx
  /\ loadAndPlay2Sync(rafId, rafCount)

\* performWithStateCheck: action() issues its first command at once
performWithStateCheck2(op, arg) ==
  /\ calls < MaxCalls
  /\ calls' = calls + 1
  /\ tasks' = tasks \cup {Task(op, "action", calls + 1, 0, isPaused \/ ~isPlaying, arg)}
  /\ issued' = <<Cmd(IF op = "setOutputDevice" THEN "set_output_device"
                     ELSE "player_set_channels", arg, FALSE)>>
  /\ UNCHANGED <<storeVars, clockVars, store2Vars, backend, unhandled>>

setOutputDevice2(device) == performWithStateCheck2("setOutputDevice", device)
setChannelMode2(mode) == performWithStateCheck2("setChannelMode", mode)

\* action() has returned, said being what it told the notifier on its way:
\* player_pause if wasPaused, else player_set_volume
performWithStateCheck2_afterAction(t, said) ==
  /\ tasks' = (tasks \ {t}) \cup
       {[t EXCEPT !.pc = IF t.flag THEN "player_pause" ELSE "set_volume"]}
  /\ issued' = IF t.flag THEN said \o <<Cmd("player_pause", 0, FALSE)>>
               ELSE said \o <<Cmd("player_set_volume", VolLevel(volume), FALSE)>>
  /\ backend' = IF t.flag THEN BackendSent("player_pause", backend) ELSE backend

\* set_output_device or player_set_channels answered
performWithStateCheck2_action(t, ok) ==
  /\ t.op \in {"setOutputDevice", "setChannelMode"} /\ t.pc = "action"
  /\ activeDevice' = IF ok /\ t.op = "setOutputDevice" THEN t.arg ELSE activeDevice
  /\ hasAudioInitialized' = IF ok /\ t.op = "setOutputDevice" THEN TRUE
                            ELSE hasAudioInitialized
  /\ IF ok
     THEN /\ IF hasCurrentTrack
             THEN /\ tasks' = (tasks \ {t}) \cup {[t EXCEPT !.pc = "player_seek"]}
                  /\ issued' = DeviceNotice(t, TRUE) \o
                                 <<Cmd("player_seek", currentTime, FALSE)>>
                  /\ UNCHANGED backend
             ELSE performWithStateCheck2_afterAction(t, DeviceNotice(t, TRUE))
          /\ UNCHANGED unhandled
     ELSE IF t.op = "setOutputDevice"
     THEN performWithStateCheck2_afterAction(t, DeviceNotice(t, FALSE)) /\ UNCHANGED unhandled
     ELSE performWithStateCheck1_reject(t)
  /\ UNCHANGED <<isPlaying, isPaused, volume, progress, currentTime, playMode,
                 isDragging, isBuffering, isSeeking, isFading, playSessionId,
                 queue, currentIndex>>
  /\ UNCHANGED <<clockVars, hasStarted, actionTimeoutId, volumeTimers, calls>>

\* the player_seek of action() answered
performWithStateCheck2_seek(t, ok) ==
  /\ t.op \in {"setOutputDevice", "setChannelMode"} /\ t.pc = "player_seek"
  /\ IF ok \/ t.op = "setOutputDevice"
     THEN performWithStateCheck2_afterAction(t, IF ok THEN <<>> ELSE <<Notify("error")>>)
          /\ UNCHANGED unhandled
     ELSE performWithStateCheck1_reject(t)
  /\ UNCHANGED <<storeVars, clockVars, store2Vars, calls>>

\* the closing player_pause or player_set_volume answered
performWithStateCheck2_last(t, ok) ==
  /\ t.op \in {"setOutputDevice", "setChannelMode"}
  /\ t.pc \in {"player_pause", "set_volume"}
  /\ tasks' = tasks \ {t}
  /\ issued' = <<>>
  /\ backend' = IF ok THEN BackendAfter(t.pc, backend) ELSE backend
  /\ unhandled' = IF ok THEN unhandled ELSE unhandled \cup {t.op}
  /\ UNCHANGED <<storeVars, clockVars, store2Vars, calls>>

\* seekTo that takes the percentage for a time in seconds
seekTo2Sync_noScale(percent, more) ==
  /\ hasCurrentTrack /\ currentTrack.duration > 0
  /\ stopProgressLoop
  /\ isSeeking' = TRUE
  /\ progress' = percent
  /\ currentTime' = percent
  /\ tasks' = tasks \cup more \cup
       {Task("seekTo", "player_seek", calls + 1, 0, isPlaying /\ ~isPaused, percent)}
  /\ issued' = <<Cmd("player_seek", percent, FALSE)>>
  /\ UNCHANGED <<isPlaying, isPaused, volume, playMode, isBuffering, isFading,
                 playSessionId, activeDevice, queue, currentIndex>>
  /\ UNCHANGED <<store2Vars, backend, unhandled>>

\* seekTo up to await invoke('player_seek'); more holds the continuations
\* the caller starts beside it
seekTo2Sync(percent, more) ==
  /\ hasCurrentTrack /\ currentTrack.duration > 0
  /\ stopProgressLoop
  /\ isSeeking' = TRUE
  /\ progress' = percent
  /\ currentTime' = (percent * currentTrack.duration) \div 100
  /\ tasks' = tasks \cup more \cup
       {Task("seekTo", "player_seek", calls + 1, 0, isPlaying /\ ~isPaused,
             (percent * currentTrack.duration) \div 100)}
  /\ issued' = <<Cmd("player_seek", (percent * currentTrack.duration) \div 100, FALSE)>>
  /\ UNCHANGED <<isPlaying, isPaused, volume, playMode, isBuffering, isFading,
                 playSessionId, activeDevice, queue, currentIndex>>
  /\ UNCHANGED <<store2Vars, backend, unhandled>>

seekTo2(percent) ==
  /\ calls < MaxCalls
  /\ IF hasCurrentTrack /\ currentTrack.duration > 0
     THEN /\ calls' = calls + 1
          /\ seekTo2Sync(percent, {})
          /\ UNCHANGED isDragging
     ELSE UNCHANGED vars

seekTo2_afterSeek(t, ok) ==
  /\ t.op = "seekTo" /\ t.pc = "player_seek"
  /\ tasks' = tasks \ {t}
  /\ issued' = <<>>
  /\ isSeeking' = FALSE
  /\ IF ok /\ t.flag THEN startProgressLoop ELSE UNCHANGED clockVars
  /\ UNCHANGED <<isPlaying, isPaused, volume, progress, currentTime, playMode,
                 isDragging, isBuffering, isFading, playSessionId, activeDevice,
                 queue, currentIndex>>
  /\ UNCHANGED <<store2Vars, calls, backend, unhandled>>

onProgressChange2(percent) ==
  /\ calls < MaxCalls
  /\ calls' = calls + 1
  /\ UNCHANGED isDragging
  /\ IF hasCurrentTrack /\ currentTrack.duration > 0
     THEN seekTo2Sync(percent, {Task("onProgressChange", "timer", calls + 1, 0, FALSE, 0)})
     ELSE /\ tasks' = tasks \cup {Task("onProgressChange", "timer", calls + 1, 0, FALSE, 0)}
          /\ issued' = <<>>
          /\ UNCHANGED <<isPlaying, isPaused, volume, progress, currentTime, playMode,
                         isBuffering, isSeeking, isFading, playSessionId,
                         activeDevice, queue, currentIndex>>
          /\ UNCHANGED <<clockVars, store2Vars, backend, unhandled>>

\* watch(volume) forwards every change
setVolume2(v) ==
  /\ calls < MaxCalls
  /\ v # volume
  /\ calls' = calls + 1
  /\ volume' = v
  /\ issued' = <<Cmd("player_set_volume", VolLevel(v), FALSE)>>
  /\ UNCHANGED <<isPlaying, isPaused, progress, currentTime, playMode,
                 isDragging, isBuffering, isSeeking, isFading, playSessionId,
                 activeDevice, queue, currentIndex>>
  /\ UNCHANGED <<clockVars, store2Vars, tasks, backend, unhandled>>

\* the progress loop that repeats the track at its end in every play mode
loop2_alwaysRepeats(own, draw) ==
  /\ rafCount > 0
  /\ IF own THEN rafId = "pending"
     ELSE rafCount > (IF rafId = "pending" THEN 1 ELSE 0)
  /\ IF ~isPlaying \/ isPaused \/ ~hasCurrentTrack
     THEN /\ draw = 0
          /\ rafId' = FiredId(own) /\ rafCount' = rafCount - 1
          /\ frameAge' = IF rafCount = 1 THEN 0 ELSE frameAge
          /\ issued' = <<>>
          /\ UNCHANGED <<storeVars, store2Vars, tasks, calls, backend, unhandled>>
     ELSE IF isDragging \/ isBuffering \/ isSeeking
     THEN /\ draw = 0
          /\ rafId' = "pending" /\ rafCount' = rafCount
          /\ frameAge' = 0
          /\ issued' = <<>>
          /\ UNCHANGED <<storeVars, store2Vars, tasks, calls, backend, unhandled>>
     ELSE IF FALSE
     THEN /\ draw < Len(queue)
          /\ currentIndex' = NextIndex2(draw)
          /\ loadAndPlay2Sync(FiredId(own), rafCount - 1)
          /\ UNCHANGED calls
     ELSE /\ draw = 0
          /\ currentTime' = IF currentTime + frameAge >= currentTrack.duration
                            THEN 0 ELSE currentTime + frameAge
          /\ issued' = IF currentTime + frameAge >= currentTrack.duration
                       THEN <<Cmd("player_seek", 0, FALSE)>> ELSE <<>>
          /\ progress' = IF currentTrack.duration > 0
                         THEN (currentTime' * 100) \div currentTrack.duration
                         ELSE progress
          /\ rafId' = "pending" /\ rafCount' = rafCount
          /\ frameAge' = 0
          /\ UNCHANGED <<isPlaying, isPaused, volume, playMode, isDragging,
                         isBuffering, isSeeking, isFading, playSessionId,
                         activeDevice, queue, currentIndex>>
          /\ UNCHANGED <<store2Vars, tasks, calls, backend, unhandled>>

\* the callback loop(timestamp) of startProgressLoop; own tells whether the
\* frame that fires is the one rafId names, draw is the shuffle's draw
loop2(own, draw) ==
  /\ rafCount > 0
  /\ IF own THEN rafId = "pending"
     ELSE rafCount > (IF rafId = "pending" THEN 1 ELSE 0)
  /\ IF ~isPlaying \/ isPaused \/ ~hasCurrentTrack
     THEN /\ draw = 0
          /\ rafId' = FiredId(own) /\ rafCount' = rafCount - 1
          /\ frameAge' = IF rafCount = 1 THEN 0 ELSE frameAge
          /\ issued' = <<>>
          /\ UNCHANGED <<storeVars, store2Vars, tasks, calls, backend, unhandled>>
     ELSE IF isDragging \/ isBuffering \/ isSeeking
     THEN /\ draw = 0
          /\ rafId' = "pending" /\ rafCount' = rafCount
          /\ frameAge' = 0
          /\ issued' = <<>>
          /\ UNCHANGED <<storeVars, store2Vars, tasks, calls, backend, unhandled>>
     ELSE IF currentTime + frameAge >= currentTrack.duration /\ playMode # "loop"
     THEN /\ draw < Len(queue)
          /\ currentIndex' = NextIndex2(draw)
          /\ loadAndPlay2Sync(FiredId(own), rafCount - 1)
          /\ UNCHANGED calls
     ELSE /\ draw = 0
          /\ currentTime' = IF currentTime + frameAge >= currentTrack.duration
                            THEN 0 ELSE currentTime + frameAge
          /\ issued' = IF currentTime + frameAge >= currentTrack.duration
                       THEN <<Cmd("player_seek", 0, FALSE)>> ELSE <<>>
          /\ progress' = IF currentTrack.duration > 0
                         THEN (currentTime' * 100) \div currentTrack.duration
                         ELSE progress
          /\ rafId' = "pending" /\ rafCount' = rafCount
          /\ frameAge' = 0
          /\ UNCHANGED <<isPlaying, isPaused, volume, playMode, isDragging,
                         isBuffering, isSeeking, isFading, playSessionId,
                         activeDevice, queue, currentIndex>>
          /\ UNCHANGED <<store2Vars, tasks, calls, backend, unhandled>>

\* ====================================== engine switch (second store)
Engines == {"galaxy", "ffmpeg"}       \* engine ids
ProgressPayloads == {50}              \* percentages carried by ffmpeg-progress

\* switchEngine without its guard on isDownloadingFFmpeg
switchEngineSync_unguarded(engineId, downloading, said, id) ==
  /\ activeEngine' = engineId
  /\ issued' = said \o <<Notify("info"), Cmd("init_audio_engine", engineId, FALSE)>>
  /\ tasks' = tasks \cup
       {[Task("switchEngine", "init", id, 0, isPlaying, currentTime)
           EXCEPT !.engine = engineId]}

\* switchEngine up to await invoke('init_audio_engine'): downloading is
\* isDownloadingFFmpeg as the call finds it, said is what its caller has
\* told the notifier in the same step, id tells the callers apart
switchEngineSync(engineId, downloading, said, id) ==
  IF downloading
  THEN /\ issued' = said \o <<Notify("error")>>
       /\ UNCHANGED <<activeEngine, tasks>>
  ELSE /\ activeEngine' = engineId
       /\ issued' = said \o <<Notify("info"), Cmd("init_audio_engine", engineId, FALSE)>>
       /\ tasks' = tasks \cup
            {[Task("switchEngine", "init", id, 0, isPlaying, currentTime)
                EXCEPT !.engine = engineId]}

\* switchEngine(engineId), called by the user
switchEngine(engineId) ==
  /\ calls < MaxCalls
  /\ calls' = calls + 1
  /\ switchEngineSync(engineId, isDownloadingFFmpeg, <<>>, calls + 1)
  /\ UNCHANGED <<isDownloadingFFmpeg, ffmpegProgress, backendEngine>>
  /\ UNCHANGED <<storeVars, clockVars, store2Vars, backend, unhandled>>

\* The answers the backend can give to init_audio_engine: READY for an
\* engine it has, DOWNLOADING for ffmpeg while it is not installed, or a
\* rejection
CanAnswer(engineId, res) ==
  \/ res = "REJECTED"
  \/ res = "READY" /\ (engineId = "ffmpeg" => backendEngine.installed)
  \/ res = "DOWNLOADING" /\ engineId = "ffmpeg" /\ ~backendEngine.installed

\* the backend's engines once it has given the answer res
BackendEngineAfter(engineId, res) ==
  IF res = "READY" THEN [backendEngine EXCEPT !.current = engineId]
  ELSE IF res = "DOWNLOADING" THEN [backendEngine EXCEPT !.job = "running"]
  ELSE backendEngine

\* the catch block of switchEngine up to await syncEngine()
switchEngine_catch(t) ==
  /\ tasks' = (tasks \ {t}) \cup {[t EXCEPT !.pc = "sync"]}
  /\ issued' = <<Notify("error"), Cmd("get_current_engine", 0, FALSE)>>

\* the READY case that reloads and resumes whether or not a track was playing
switchEngine_ready_alwaysResumes(t) ==
  /\ hasAudioInitialized' = TRUE
  /\ IF hasCurrentTrack
     THEN /\ tasks' = (tasks \ {t}) \cup {[t EXCEPT !.pc = "load_track"]}
          /\ issued' = <<Notify("info"), Cmd("player_load_track", currentTrack.path, FALSE)>>
          /\ backend' = BackendSent("player_load_track", backend)
     ELSE /\ tasks' = tasks \ {t}
          /\ issued' = <<Notify("info")>>
          /\ UNCHANGED backend

\* Case B of switchEngine: the answer is READY
switchEngine_ready(t) ==
  /\ hasAudioInitialized' = TRUE
  /\ IF t.flag /\ hasCurrentTrack
     THEN /\ tasks' = (tasks \ {t}) \cup {[t EXCEPT !.pc = "load_track"]}
          /\ issued' = <<Notify("info"), Cmd("player_load_track", currentTrack.path, FALSE)>>
          /\ backend' = BackendSent("player_load_track", backend)
     ELSE /\ tasks' = tasks \ {t}
          /\ issued' = <<Notify("info")>>
          /\ UNCHANGED backend

\* init_audio_engine answered
switchEngine_afterInit(t, res) ==
  /\ t.op = "switchEngine" /\ t.pc = "init"
  /\ CanAnswer(t.engine, res)
  /\ backendEngine' = BackendEngineAfter(t.engine, res)
  /\ IF res = "DOWNLOADING"
     THEN /\ isDownloadingFFmpeg' = TRUE
          /\ tasks' = tasks \ {t}
          /\ issued' = <<Notify("info")>>
          /\ UNCHANGED <<hasAudioInitialized, backend>>
     ELSE IF res = "READY"
     THEN /\ switchEngine_ready(t)
          /\ UNCHANGED isDownloadingFFmpeg
     ELSE /\ switchEngine_catch(t)
          /\ UNCHANGED <<isDownloadingFFmpeg, hasAudioInitialized, backend>>
  /\ UNCHANGED <<storeVars, clockVars, hasStarted, actionTimeoutId, volumeTimers>>
  /\ UNCHANGED <<activeEngine, ffmpegProgress, calls, unhandled>>

\* the player_load_track of the READY case answered
switchEngine_afterLoad(t, ok) ==
  /\ t.op = "switchEngine" /\ t.pc = "load_track"
  /\ IF ok
     THEN /\ backend' = BackendAfter("player_load_track", backend)
          /\ tasks' = (tasks \ {t}) \cup {[t EXCEPT !.pc = "player_seek"]}
          /\ issued' = <<Cmd("player_seek", t.arg, FALSE)>>
     ELSE /\ switchEngine_catch(t)
          /\ UNCHANGED backend
  /\ UNCHANGED <<storeVars, clockVars, store2Vars, calls, unhandled, engineVars>>

\* the player_seek of the READY case answered: executePlayLogic(false)
switchEngine_afterSeek(t, ok) ==
  /\ t.op = "switchEngine" /\ t.pc = "player_seek"
  /\ IF ok
     THEN /\ tasks' = (tasks \ {t}) \cup {[t EXCEPT !.pc = "player_play"]}
          /\ issued' = <<Cmd("player_play", 0, FALSE)>>
          /\ backend' = BackendSent("player_play", backend)
     ELSE /\ switchEngine_catch(t)
          /\ UNCHANGED backend
  /\ UNCHANGED <<storeVars, clockVars, store2Vars, calls, unhandled, engineVars>>

\* executePlayLogic(false) of the READY case: player_play answered
switchEngine_afterPlay(t, ok) ==
  /\ t.op = "switchEngine" /\ t.pc = "player_play"
  /\ tasks' = tasks \ {t}
  /\ issued' = <<>>
  /\ IF ok
     THEN /\ backend' = BackendAfter("player_play", backend)
          /\ executePlayLogic_commit
     ELSE UNCHANGED <<isPlaying, isPaused, hasStarted, clockVars, volumeTimers, backend>>
  /\ UNCHANGED <<volume, progress, currentTime, playMode, isDragging, isBuffering,
                 isSeeking, isFading, playSessionId, activeDevice, queue, currentIndex>>
  /\ UNCHANGED <<hasAudioInitialized, actionTimeoutId, calls, unhandled, engineVars>>

\* syncEngine that drops the engine the backend returns
syncEngine_answered_keeps(t, ok) ==
  /\ t.op = "switchEngine" /\ t.pc = "sync"
  /\ tasks' = tasks \ {t}
  /\ issued' = <<>>
  /\ activeEngine' = activeEngine
  /\ isDownloadingFFmpeg' = FALSE
  /\ UNCHANGED <<storeVars, clockVars, store2Vars, calls, backend, unhandled>>
  /\ UNCHANGED <<ffmpegProgress, backendEngine>>

\* get_current_engine answered: syncEngine writes activeEngine, the catch
\* block of switchEngine clears the download flag
syncEngine_answered(t, ok) ==
  /\ t.op = "switchEngine" /\ t.pc = "sync"
  /\ tasks' = tasks \ {t}
  /\ issued' = <<>>
  /\ activeEngine' = IF ok THEN backendEngine.current ELSE activeEngine
  /\ isDownloadingFFmpeg' = FALSE
  /\ UNCHANGED <<storeVars, clockVars, store2Vars, calls, backend, unhandled>>
  /\ UNCHANGED <<ffmpegProgress, backendEngine>>

\* listen('ffmpeg-status') that forgets to clear the flag on 'ready'
ffmpegStatus_readyKeepsFlag(status) ==
  /\ backendEngine.job = "running"
  /\ IF status \in {"downloading", "extracting"}
     THEN /\ isDownloadingFFmpeg' = TRUE
          /\ ffmpegProgress' = IF status = "downloading" THEN 0 ELSE 99
          /\ issued' = <<Notify("info")>>
          /\ UNCHANGED <<activeEngine, tasks, backendEngine>>
     ELSE IF status = "ready"
     THEN /\ isDownloadingFFmpeg' = isDownloadingFFmpeg
          /\ ffmpegProgress' = 100
          /\ backendEngine' = [backendEngine EXCEPT !.job = "idle", !.installed = TRUE,
                                                    !.successDue = TRUE]
          /\ switchEngineSync("ffmpeg", isDownloadingFFmpeg, <<Notify("info")>>, 0)
     ELSE /\ isDownloadingFFmpeg' = FALSE
          /\ issued' = <<Notify("error")>>
          /\ backendEngine' = [backendEngine EXCEPT !.job = "idle"]
          /\ UNCHANGED <<activeEngine, ffmpegProgress, tasks>>
  /\ UNCHANGED <<storeVars, clockVars, store2Vars, calls, backend, unhandled>>

\* listen('ffmpeg-status'): the backend reports on the download it runs;
\* 'ready' and 'error' end it
ffmpegStatus(status) ==
  /\ backendEngine.job = "running"
  /\ IF status \in {"downloading", "extracting"}
     THEN /\ isDownloadingFFmpeg' = TRUE
          /\ ffmpegProgress' = IF status = "downloading" THEN 0 ELSE 99
          /\ issued' = <<Notify("info")>>
          /\ UNCHANGED <<activeEngine, tasks, backendEngine>>
     ELSE IF status = "ready"
     THEN /\ isDownloadingFFmpeg' = FALSE
          /\ ffmpegProgress' = 100
          /\ backendEngine' = [backendEngine EXCEPT !.job = "idle", !.installed = TRUE,
                                                    !.successDue = TRUE]
          /\ switchEngineSync("ffmpeg", FALSE, <<Notify("info")>>, 0)
     ELSE /\ isDownloadingFFmpeg' = FALSE
          /\ issued' = <<Notify("error")>>
          /\ backendEngine' = [backendEngine EXCEPT !.job = "idle"]
          /\ UNCHANGED <<activeEngine, ffmpegProgress, tasks>>
  /\ UNCHANGED <<storeVars, clockVars, store2Vars, calls, backend, unhandled>>

\* listen('ffmpeg-progress')
ffmpegProgressEvent(p) ==
  /\ backendEngine.job = "running"
  /\ ffmpegProgress' = p
  /\ issued' = <<>>
  /\ UNCHANGED <<storeVars, clockVars, store2Vars, tasks, calls, backend, unhandled>>
  /\ UNCHANGED <<activeEngine, isDownloadingFFmpeg, backendEngine>>

\* listen('download-success') with the payload 'ffmpeg'
downloadSuccess ==
  /\ backendEngine.successDue
  /\ backendEngine' = [backendEngine EXCEPT !.successDue = FALSE]
  /\ switchEngineSync("ffmpeg", isDownloadingFFmpeg, <<>>, -1)
  /\ UNCHANGED <<isDownloadingFFmpeg, ffmpegProgress>>
  /\ UNCHANGED <<storeVars, clockVars, store2Vars, calls, backend, unhandled>>

Next1 ==
  \/ store = 1 /\ UNCHANGED <<store, engineVars>> /\ (\E p \in Paths : importTrack(p))
  \/ store = 1 /\ UNCHANGED <<store, engineVars>> /\ (loadAndPlay1)
  \/ store = 1 /\ UNCHANGED <<store, engineVars>> /\ (nextTrack1)
  \/ store = 1 /\ UNCHANGED <<store, engineVars>> /\ (prevTrack1)
  \/ store = 1 /\ UNCHANGED <<store, engineVars>> /\ (\E i \in 0..1 : playTrack1(i))
  \/ store = 1 /\ UNCHANGED <<store, engineVars>> /\ (toggleMode)
  \/ store = 1 /\ UNCHANGED <<store, engineVars>> /\ (togglePlay1)
  \/ store = 1 /\ UNCHANGED <<store, engineVars>> /\ (\E p \in Percents : seekTo1(p))
  \/ store = 1 /\ UNCHANGED <<store, engineVars>> /\ (onProgressInput)
  \/ store = 1 /\ UNCHANGED <<store, engineVars>> /\ (\E p \in Percents : onProgressChange1(p))
  \/ store = 1 /\ UNCHANGED <<store, engineVars>> /\ (\E d \in Devices : setOutputDevice1(d))
  \/ store = 1 /\ UNCHANGED <<store, engineVars>> /\ (\E m \in ChannelModes : setChannelMode1(m))
  \/ store = 1 /\ UNCHANGED <<store, engineVars>> /\ (\E v \in Volumes : setVolume1(v))
  \/ store = 1 /\ UNCHANGED <<store, engineVars>> /\ (\E x \in SeekPayloads : seekEnd(x))
  \/ store = 1 /\ UNCHANGED <<store, engineVars>> /\ (timePasses)
  \/ store = 1 /\ UNCHANGED <<store, engineVars>> /\ (\E own \in BOOLEAN : loop1(own))
  \/ store = 1 /\ UNCHANGED <<store, engineVars>> /\ (\E t \in tasks : dragTimer(t))
  \/ store = 1 /\ UNCHANGED <<store, engineVars>> /\ (\E t \in tasks : loadAndPlay1_afterDelay(t))
  \/ store = 1 /\ UNCHANGED <<store, engineVars>> /\ (\E t \in tasks, ok \in BOOLEAN : loadAndPlay1_afterSetVolume(t, ok))
  \/ store = 1 /\ UNCHANGED <<store, engineVars>> /\ (\E t \in tasks, ok \in BOOLEAN, d \in LoadDurations : loadAndPlay1_afterLoad(t, ok, d))
  \/ store = 1 /\ UNCHANGED <<store, engineVars>> /\ (\E t \in tasks, k \in 1..FadeSteps : loadAndPlay1_fade(t, k))
  \/ store = 1 /\ UNCHANGED <<store, engineVars>> /\ (\E t \in tasks, k \in 1..FadeSteps : togglePlay1_fade(t, k))
  \/ store = 1 /\ UNCHANGED <<store, engineVars>> /\ (\E t \in tasks : togglePlay1_afterDelay(t))
  \/ store = 1 /\ UNCHANGED <<store, engineVars>> /\ (\E t \in tasks, ok \in BOOLEAN : togglePlay1_afterPause(t, ok))
  \/ store = 1 /\ UNCHANGED <<store, engineVars>> /\ (\E t \in tasks, ok \in BOOLEAN : togglePlay1_afterPlay(t, ok))
  \/ store = 1 /\ UNCHANGED <<store, engineVars>> /\ (\E t \in tasks : seekTo1_afterDelay(t))
  \/ store = 1 /\ UNCHANGED <<store, engineVars>> /\ (\E t \in tasks, ok \in BOOLEAN : seekTo1_afterSeek(t, ok))
  \/ store = 1 /\ UNCHANGED <<store, engineVars>> /\ (\E t \in tasks, ok \in BOOLEAN : seekTo1_afterPause(t, ok))
  \/ store = 1 /\ UNCHANGED <<store, engineVars>> /\ (\E t \in tasks : performWithStateCheck1_afterDelay(t))
  \/ store = 1 /\ UNCHANGED <<store, engineVars>> /\ (\E t \in tasks, ok \in BOOLEAN : performWithStateCheck1_action(t, ok))
  \/ store = 1 /\ UNCHANGED <<store, engineVars>> /\ (\E t \in tasks, ok \in BOOLEAN : performWithStateCheck1_seek(t, ok))
  \/ store = 1 /\ UNCHANGED <<store, engineVars>> /\ (\E t \in tasks, ok \in BOOLEAN : performWithStateCheck1_pause(t, ok))

Next2 ==
  \/ store = 2 /\ UNCHANGED <<store, engineVars>> /\ (\E p \in Paths : importTrack(p))
  \/ store = 2 /\ UNCHANGED <<store, engineVars>> /\ (loadAndPlay2)
  \/ store = 2 /\ UNCHANGED <<store, engineVars>> /\ (\E draw \in 0..1 : nextTrack2(draw))
  \/ store = 2 /\ UNCHANGED <<store, engineVars>> /\ (prevTrack2)
  \/ store = 2 /\ UNCHANGED <<store, engineVars>> /\ (\E i \in 0..1 : playTrack2(i))
  \/ store = 2 /\ UNCHANGED <<store, engineVars>> /\ (toggleMode)
  \/ store = 2 /\ UNCHANGED <<store, engineVars>> /\ (togglePlay2)
  \/ store = 2 /\ UNCHANGED <<store, engineVars>> /\ (\E p \in Percents : seekTo2(p))
  \/ store = 2 /\ UNCHANGED <<store, engineVars>> /\ (onProgressInput)
  \/ store = 2 /\ UNCHANGED <<store, engineVars>> /\ (\E p \in Percents : onProgressChange2(p))
  \/ store = 2 /\ UNCHANGED <<store, engineVars>> /\ (\E d \in Devices : setOutputDevice2(d))
  \/ store = 2 /\ UNCHANGED <<store, engineVars>> /\ (\E m \in ChannelModes : setChannelMode2(m))
  \/ store = 2 /\ UNCHANGED <<store, engineVars>> /\ (\E v \in Volumes : setVolume2(v))
  \/ store = 2 /\ UNCHANGED <<store, engineVars>> /\ (\E x \in SeekPayloads : seekEnd(x))
  \/ store = 2 /\ UNCHANGED <<store, engineVars>> /\ (timePasses)
  \/ store = 2 /\ UNCHANGED <<store, engineVars>> /\ (\E own \in BOOLEAN, draw \in 0..1 : loop2(own, draw))
  \/ store = 2 /\ UNCHANGED <<store, engineVars>> /\ (volumeTimer2)
  \/ store = 2 /\ UNCHANGED <<store, engineVars>> /\ (togglePlay2_timer)
  \/ store = 2 /\ UNCHANGED <<store, engineVars>> /\ (loadAndPlay2_timer)
  \/ store = 2 /\ UNCHANGED <<store, engineVars>> /\ (\E t \in tasks : dragTimer(t))
  \/ store = 2 /\ UNCHANGED <<store, engineVars>> /\ (\E t \in tasks, ok \in BOOLEAN : executePlayLogic_afterPlay(t, ok))
  \/ store = 2 /\ UNCHANGED <<store, engineVars>> /\ (\E t \in tasks, ok \in BOOLEAN : executePauseLogic_afterPause(t, ok))
  \/ store = 2 /\ UNCHANGED <<store, engineVars>> /\ (\E t \in tasks, ok \in BOOLEAN : loadAndPlay2_afterWake(t, ok))
  \/ store = 2 /\ UNCHANGED <<store, engineVars>> /\ (\E t \in tasks, ok \in BOOLEAN, d \in LoadDurations : loadAndPlay2_afterLoad(t, ok, d))
  \/ store = 2 /\ UNCHANGED <<store, engineVars>> /\ (\E t \in tasks, ok \in BOOLEAN : executePlayLogic_afterSetVolume(t, ok))
  \/ store = 2 /\ UNCHANGED <<store, engineVars>> /\ (\E t \in tasks, ok \in BOOLEAN : performWithStateCheck2_action(t, ok))
  \/ store = 2 /\ UNCHANGED <<store, engineVars>> /\ (\E t \in tasks, ok \in BOOLEAN : performWithStateCheck2_seek(t, ok))
  \/ store = 2 /\ UNCHANGED <<store, engineVars>> /\ (\E t \in tasks, ok \in BOOLEAN : performWithStateCheck2_last(t, ok))
  \/ store = 2 /\ UNCHANGED <<store, engineVars>> /\ (\E t \in tasks, ok \in BOOLEAN : seekTo2_afterSeek(t, ok))

Next == Next1 \/ Next2

Spec == Init /\ [][Next]_vars

\* ------------------------------------------------ the toggle scenario
\* A stable Playing state: a track is loaded and plays, nothing is pending.
StablePlaying ==
  /\ isPlaying = TRUE /\ isPaused = FALSE /\ volume = 80
  /\ progress = 0 /\ currentTime = 0 /\ playMode = "sequence"
  /\ isDragging = FALSE /\ isBuffering = FALSE /\ isSeeking = FALSE
  /\ isFading = FALSE /\ playSessionId = 1
  /\ activeDevice = 0 /\ queue = <<[path |-> 1, duration |-> 4]>> /\ currentIndex = 0
  /\ rafId = "pending" /\ rafCount = 1 /\ frameAge = 0
  /\ hasStarted = (store = 2) /\ hasAudioInitialized = (store = 2)
  /\ actionTimeoutId = NoTimer /\ volumeTimers = 0
  /\ tasks = {} /\ issued = <<>>
  /\ backend = [state |-> "playing", loadIssued |-> TRUE, lastTransport |-> "player_play"] /\ unhandled = {}

InitToggle == store \in {1, 2} /\ calls = 0 /\ StablePlaying /\ EngineIdle

\* togglePlay, pressed up to MaxCalls times, and what it sets going, with a
\* backend that answers every command with success
NextToggle ==
  \/ store = 1 /\ UNCHANGED <<store, engineVars>> /\ togglePlay1
  \/ store = 1 /\ UNCHANGED <<store, engineVars>> /\ (\E t \in tasks, k \in 1..FadeSteps : togglePlay1_fade(t, k))
  \/ store = 1 /\ UNCHANGED <<store, engineVars>> /\ (\E t \in tasks : togglePlay1_afterDelay(t))
  \/ store = 1 /\ UNCHANGED <<store, engineVars>> /\ (\E t \in tasks : togglePlay1_afterPause(t, TRUE))
  \/ store = 1 /\ UNCHANGED <<store, engineVars>> /\ (\E t \in tasks : togglePlay1_afterPlay(t, TRUE))
  \/ store = 1 /\ UNCHANGED <<store, engineVars>> /\ (\E own \in BOOLEAN : loop1(own))
  \/ store = 2 /\ UNCHANGED <<store, engineVars>> /\ togglePlay2
  \/ store = 2 /\ UNCHANGED <<store, engineVars>> /\ togglePlay2_timer
  \/ store = 2 /\ UNCHANGED <<store, engineVars>> /\ (\E t \in tasks : executePlayLogic_afterPlay(t, TRUE))
  \/ store = 2 /\ UNCHANGED <<store, engineVars>> /\ (\E t \in tasks : executePauseLogic_afterPause(t, TRUE))
  \/ store = 2 /\ UNCHANGED <<store, engineVars>> /\ volumeTimer2
  \/ store = 2 /\ UNCHANGED <<store, engineVars>> /\ (\E own \in BOOLEAN : loop2(own, 0))

SpecToggle == InitToggle /\ [][NextToggle]_vars

\* ------------------------------------------------- the queue scenario
\* Queues of up to three imported tracks, none loaded yet
Queues ==
  {<<>>,
   <<[path |-> 1, duration |-> ImportDuration(1)]>>,
   <<[path |-> 1, duration |-> ImportDuration(1)],
     [path |-> 2, duration |-> ImportDuration(2)]>>,
   <<[path |-> 1, duration |-> ImportDuration(1)],
     [path |-> 2, duration |-> ImportDuration(2)],
     [path |-> 3, duration |-> ImportDuration(3)]>>}

\* The store after import-track events and toggleMode calls only: a queue,
\* a play mode, nothing played yet.
InitQueue ==
  /\ isPlaying = FALSE /\ isPaused = FALSE /\ volume = 80
  /\ progress = 0 /\ currentTime = 0
  /\ playMode \in {"sequence", "loop", "shuffle"}
  /\ isDragging = FALSE /\ isBuffering = FALSE /\ isSeeking = FALSE
  /\ isFading = FALSE /\ playSessionId = 0
  /\ activeDevice = 0 /\ queue \in Queues /\ currentIndex = 0
  /\ rafId = "null" /\ rafCount = 0 /\ frameAge = 0
  /\ hasStarted = FALSE /\ hasAudioInitialized = FALSE
  /\ actionTimeoutId = NoTimer /\ volumeTimers = 0
  /\ tasks = {} /\ calls = 0 /\ issued = <<>>
  /\ backend = [state |-> "idle", loadIssued |-> FALSE, lastTransport |-> "none"]
  /\ unhandled = {}
  /\ store \in {1, 2}
  /\ EngineIdle

\* nextTrack, prevTrack, playTrack and import-track events, the loadAndPlay
\* chains they start and the progress clock
NextQueue ==
  \/ store = 1 /\ UNCHANGED <<store, engineVars>> /\ (\E p \in Paths : importTrack(p))
  \/ store = 1 /\ UNCHANGED <<store, engineVars>> /\ (nextTrack1)
  \/ store = 1 /\ UNCHANGED <<store, engineVars>> /\ (prevTrack1)
  \/ store = 1 /\ UNCHANGED <<store, engineVars>> /\ (\E i \in 0..2 : playTrack1(i))
  \/ store = 1 /\ UNCHANGED <<store, engineVars>> /\ (timePasses)
  \/ store = 1 /\ UNCHANGED <<store, engineVars>> /\ (\E own \in BOOLEAN : loop1(own))
  \/ store = 1 /\ UNCHANGED <<store, engineVars>> /\ (\E t \in tasks : loadAndPlay1_afterDelay(t))
  \/ store = 1 /\ UNCHANGED <<store, engineVars>> /\ (\E t \in tasks, ok \in BOOLEAN : loadAndPlay1_afterSetVolume(t, ok))
  \/ store = 1 /\ UNCHANGED <<store, engineVars>> /\ (\E t \in tasks, ok \in BOOLEAN, d \in LoadDurations : loadAndPlay1_afterLoad(t, ok, d))
  \/ store = 1 /\ UNCHANGED <<store, engineVars>> /\ (\E t \in tasks, k \in 1..FadeSteps : loadAndPlay1_fade(t, k))
  \/ store = 2 /\ UNCHANGED <<store, engineVars>> /\ (\E p \in Paths : importTrack(p))
  \/ store = 2 /\ UNCHANGED <<store, engineVars>> /\ (\E draw \in 0..2 : nextTrack2(draw))
  \/ store = 2 /\ UNCHANGED <<store, engineVars>> /\ (prevTrack2)
  \/ store = 2 /\ UNCHANGED <<store, engineVars>> /\ (\E i \in 0..2 : playTrack2(i))
  \/ store = 2 /\ UNCHANGED <<store, engineVars>> /\ (timePasses)
  \/ store = 2 /\ UNCHANGED <<store, engineVars>> /\ (\E own \in BOOLEAN, draw \in 0..2 : loop2(own, draw))
  \/ store = 2 /\ UNCHANGED <<store, engineVars>> /\ (volumeTimer2)
  \/ store = 2 /\ UNCHANGED <<store, engineVars>> /\ (loadAndPlay2_timer)
  \/ store = 2 /\ UNCHANGED <<store, engineVars>> /\ (\E t \in tasks, ok \in BOOLEAN : loadAndPlay2_afterWake(t, ok))
  \/ store = 2 /\ UNCHANGED <<store, engineVars>> /\ (\E t \in tasks, ok \in BOOLEAN, d \in LoadDurations : loadAndPlay2_afterLoad(t, ok, d))
  \/ store = 2 /\ UNCHANGED <<store, engineVars>> /\ (\E t \in tasks, ok \in BOOLEAN : executePlayLogic_afterSetVolume(t, ok))

SpecQueue == InitQueue /\ [][NextQueue]_vars

\* ------------------------------------------------ the device scenario
\* A stable Paused state: a track was loaded and played to its middle, then
\* paused; nothing is pending.
StablePaused ==
  /\ isPlaying = FALSE /\ isPaused = TRUE /\ volume = 80
  /\ progress = 50 /\ currentTime = 2 /\ playMode = "sequence"
  /\ isDragging = FALSE /\ isBuffering = FALSE /\ isSeeking = FALSE
  /\ isFading = FALSE /\ playSessionId = 1
  /\ activeDevice = 0 /\ queue = <<[path |-> 1, duration |-> 4]>> /\ currentIndex = 0
  /\ rafId = "null" /\ rafCount = 0 /\ frameAge = 0
  /\ hasStarted = (store = 2) /\ hasAudioInitialized = (store = 2)
  /\ actionTimeoutId = NoTimer /\ volumeTimers = 0
  /\ tasks = {} /\ issued = <<>>
  /\ backend = [state |-> "paused", loadIssued |-> TRUE, lastTransport |-> "player_pause"]
  /\ unhandled = {}

\* The first store after a setOutputDevice made with an empty queue has
\* run to its end: its closing lines have written isPaused.
PausedNoTrack ==
  /\ isPlaying = FALSE /\ isPaused = TRUE /\ volume = 80
  /\ progress = 0 /\ currentTime = 0 /\ playMode = "sequence"
  /\ isDragging = FALSE /\ isBuffering = FALSE /\ isSeeking = FALSE
  /\ isFading = FALSE /\ playSessionId = 0
  /\ activeDevice = 1 /\ queue = <<>> /\ currentIndex = 0
  /\ rafId = "null" /\ rafCount = 0 /\ frameAge = 0
  /\ hasStarted = FALSE /\ hasAudioInitialized = FALSE
  /\ actionTimeoutId = NoTimer /\ volumeTimers = 0
  /\ tasks = {} /\ issued = <<>>
  /\ backend = [state |-> "paused", loadIssued |-> FALSE, lastTransport |-> "player_pause"]
  /\ unhandled = {}

InitDevice ==
  \/ store \in {1, 2} /\ calls = 0 /\ StablePaused /\ EngineIdle
  \/ store = 1 /\ calls = 0 /\ PausedNoTrack /\ EngineIdle

\* setOutputDevice, called up to MaxCalls times, and what it sets going,
\* with a backend that may reject every command
NextDevice ==
  \/ store = 1 /\ UNCHANGED <<store, engineVars>> /\ (\E d \in Devices : setOutputDevice1(d))
  \/ store = 1 /\ UNCHANGED <<store, engineVars>> /\ (\E t \in tasks : performWithStateCheck1_afterDelay(t))
  \/ store = 1 /\ UNCHANGED <<store, engineVars>> /\ (\E t \in tasks, ok \in BOOLEAN : performWithStateCheck1_action(t, ok))
  \/ store = 1 /\ UNCHANGED <<store, engineVars>> /\ (\E t \in tasks, ok \in BOOLEAN : performWithStateCheck1_seek(t, ok))
  \/ store = 1 /\ UNCHANGED <<store, engineVars>> /\ (\E t \in tasks, ok \in BOOLEAN : performWithStateCheck1_pause(t, ok))
  \/ store = 2 /\ UNCHANGED <<store, engineVars>> /\ (\E d \in Devices : setOutputDevice2(d))
  \/ store = 2 /\ UNCHANGED <<store, engineVars>> /\ (\E t \in tasks, ok \in BOOLEAN : performWithStateCheck2_action(t, ok))
  \/ store = 2 /\ UNCHANGED <<store, engineVars>> /\ (\E t \in tasks, ok \in BOOLEAN : performWithStateCheck2_seek(t, ok))
  \/ store = 2 /\ UNCHANGED <<store, engineVars>> /\ (\E t \in tasks, ok \in BOOLEAN : performWithStateCheck2_last(t, ok))

SpecDevice == InitDevice /\ [][NextDevice]_vars

\* ------------------------------------------------ the engine scenario
\* The second store with nothing loaded, or with a track that plays or is
\* paused
InitEngine ==
  /\ store = 2 /\ calls = 0 /\ EngineIdle
  /\ \/ /\ isPlaying = FALSE /\ isPaused = FALSE /\ volume = 80
        /\ progress = 0 /\ currentTime = 0 /\ playMode = "sequence"
        /\ isDragging = FALSE /\ isBuffering = FALSE /\ isSeeking = FALSE
        /\ isFading = FALSE /\ playSessionId = 0
        /\ activeDevice = 0 /\ queue = <<>> /\ currentIndex = 0
        /\ rafId = "null" /\ rafCount = 0 /\ frameAge = 0
        /\ hasStarted = FALSE /\ hasAudioInitialized = FALSE
        /\ actionTimeoutId = NoTimer /\ volumeTimers = 0
        /\ tasks = {} /\ issued = <<>>
        /\ backend = [state |-> "idle", loadIssued |-> FALSE, lastTransport |-> "none"]
        /\ unhandled = {}
     \/ StablePlaying
     \/ StablePaused

\* switchEngine, called up to MaxCalls times, the backend's answers and
\* download events, and the progress clock
NextEngine ==
  \/ UNCHANGED store /\ (\E e \in Engines : switchEngine(e))
  \/ UNCHANGED store /\ (\E t \in tasks, res \in {"READY", "DOWNLOADING", "REJECTED"} : switchEngine_afterInit(t, res))
  \/ UNCHANGED store /\ (\E t \in tasks, ok \in BOOLEAN : switchEngine_afterLoad(t, ok))
  \/ UNCHANGED store /\ (\E t \in tasks, ok \in BOOLEAN : switchEngine_afterSeek(t, ok))
  \/ UNCHANGED store /\ (\E t \in tasks, ok \in BOOLEAN : switchEngine_afterPlay(t, ok))
  \/ UNCHANGED store /\ (\E t \in tasks, ok \in BOOLEAN : syncEngine_answered(t, ok))
  \/ UNCHANGED store /\ (\E st \in {"downloading", "extracting", "ready", "error"} : ffmpegStatus(st))
  \/ UNCHANGED store /\ (\E p \in ProgressPayloads : ffmpegProgressEvent(p))
  \/ UNCHANGED store /\ (downloadSuccess)
  \/ UNCHANGED <<store, engineVars>> /\ timePasses
  \/ UNCHANGED <<store, engineVars>> /\ (\E own \in BOOLEAN : loop2(own, 0))

SpecEngine == InitEngine /\ [][NextEngine]_vars

\* ---------------------------------------------- the seek-end scenario
\* A track of four seconds plays at some position of its first second;
\* times are counted in 1/TicksPerSecond of a second.
InitSeekEnd ==
  /\ store \in {1, 2} /\ calls = 0
  /\ isPlaying = TRUE /\ isPaused = FALSE /\ volume = 80
  /\ progress = 0 /\ currentTime \in 0..TicksPerSecond /\ playMode = "sequence"
  /\ isDragging = FALSE /\ isBuffering = FALSE /\ isSeeking = FALSE
  /\ isFading = FALSE /\ playSessionId = 1
  /\ activeDevice = 0
  /\ queue = <<[path |-> 1, duration |-> 4 * TicksPerSecond]>> /\ currentIndex = 0
  /\ rafId = "pending" /\ rafCount = 1 /\ frameAge = 0
  /\ hasStarted = (store = 2) /\ hasAudioInitialized = (store = 2)
  /\ actionTimeoutId = NoTimer /\ volumeTimers = 0
  /\ tasks = {} /\ issued = <<>>
  /\ backend = [state |-> "playing", loadIssued |-> TRUE, lastTransport |-> "player_play"]
  /\ unhandled = {}
  /\ EngineIdle

\* seek-end events between the operations that hold the interactive locks:
\* the slider held and released, seekTo, loadAndPlay
NextSeekEnd ==
  \/ UNCHANGED <<store, engineVars>> /\ (\E x \in SeekEndPayloads : seekEndIn(TicksPerSecond, x))
  \/ UNCHANGED <<store, engineVars>> /\ (onProgressInput)
  \/ UNCHANGED <<store, engineVars>> /\ (\E t \in tasks : dragTimer(t))
  \/ store = 1 /\ UNCHANGED <<store, engineVars>> /\ (onProgressChange1(0))
  \/ store = 1 /\ UNCHANGED <<store, engineVars>> /\ (loadAndPlay1)
  \/ store = 1 /\ UNCHANGED <<store, engineVars>> /\ (\E t \in tasks : seekTo1_afterDelay(t))
  \/ store = 1 /\ UNCHANGED <<store, engineVars>> /\ (\E t \in tasks, ok \in BOOLEAN : seekTo1_afterSeek(t, ok))
  \/ store = 1 /\ UNCHANGED <<store, engineVars>> /\ (\E t \in tasks : loadAndPlay1_afterDelay(t))
  \/ store = 2 /\ UNCHANGED <<store, engineVars>> /\ (onProgressChange2(0))
  \/ store = 2 /\ UNCHANGED <<store, engineVars>> /\ (loadAndPlay2)
  \/ store = 2 /\ UNCHANGED <<store, engineVars>> /\ (\E t \in tasks, ok \in BOOLEAN : seekTo2_afterSeek(t, ok))
  \/ store = 2 /\ UNCHANGED <<store, engineVars>> /\ (loadAndPlay2_timer)

SpecSeekEnd == InitSeekEnd /\ [][NextSeekEnd]_vars

\* --------------------------------------------- the transport scenario
\* The first store with tracks imported and nothing played yet, or with a
\* track that plays
InitTransport ==
  \/ InitQueue /\ store = 1 /\ Len(queue) >= 1
  \/ InitToggle /\ store = 1

\* togglePlay, loadAndPlay, nextTrack and seekTo of the first store, called
\* up to MaxCalls times in all, and what they set going, with a backend
\* that answers every command with success
NextTransport ==
  \/ UNCHANGED <<store, engineVars>> /\ togglePlay1
  \/ UNCHANGED <<store, engineVars>> /\ loadAndPlay1
  \/ UNCHANGED <<store, engineVars>> /\ nextTrack1
  \/ UNCHANGED <<store, engineVars>> /\ (\E p \in Percents : seekTo1(p))
  \/ UNCHANGED <<store, engineVars>> /\ timePasses
  \/ UNCHANGED <<store, engineVars>> /\ (\E own \in BOOLEAN : loop1(own))
  \/ UNCHANGED <<store, engineVars>> /\ (\E t \in tasks : loadAndPlay1_afterDelay(t))
  \/ UNCHANGED <<store, engineVars>> /\ (\E t \in tasks : loadAndPlay1_afterSetVolume(t, TRUE))
  \/ UNCHANGED <<store, engineVars>> /\ (\E t \in tasks, d \in LoadDurations : loadAndPlay1_afterLoad(t, TRUE, d))
  \/ UNCHANGED <<store, engineVars>> /\ (\E t \in tasks, k \in 1..FadeSteps : loadAndPlay1_fade(t, k))
  \/ UNCHANGED <<store, engineVars>> /\ (\E t \in tasks, k \in 1..FadeSteps : togglePlay1_fade(t, k))
  \/ UNCHANGED <<store, engineVars>> /\ (\E t \in tasks : togglePlay1_afterDelay(t))
  \/ UNCHANGED <<store, engineVars>> /\ (\E t \in tasks : togglePlay1_afterPause(t, TRUE))
  \/ UNCHANGED <<store, engineVars>> /\ (\E t \in tasks : togglePlay1_afterPlay(t, TRUE))
  \/ UNCHANGED <<store, engineVars>> /\ (\E t \in tasks : seekTo1_afterDelay(t))
  \/ UNCHANGED <<store, engineVars>> /\ (\E t \in tasks : seekTo1_afterSeek(t, TRUE))
  \/ UNCHANGED <<store, engineVars>> /\ (\E t \in tasks : seekTo1_afterPause(t, TRUE))

SpecTransport == InitTransport /\ [][NextTransport]_vars

\* ============================================================= claims
\* nothing is pending: no continuation, no debounce timer, no volume timer
Quiescent == tasks = {} /\ actionTimeoutId = NoTimer /\ volumeTimers = 0

\* the continuation t is the one this step resumes
Resumed(t) == t \in tasks /\ t \notin tasks'

\* C1: a loadAndPlay continuation whose captured session is no longer
\* playSessionId when it resumes writes neither the track duration nor
\* isBuffering, isPlaying, isPaused, currentTime or progress, and does not
\* start the progress clock.
C1_StaleLoadCommitsNothing ==
  [][\A t \in tasks :
       (Resumed(t) /\ t.op = "loadAndPlay" /\ t.mySession # playSessionId)
         => UNCHANGED <<queue, isBuffering, isPlaying, isPaused, currentTime,
                        progress, rafId, rafCount>>]_vars

\* C2: a loadAndPlay or seekTo continuation that is stale when it resumes
\* issues no backend command.
C2_StaleIssuesNothing == \A i \in 1..Len(issued) : ~issued[i].stale

\* C3: isPlaying and isPaused are never both true.
C3_NotPlayingAndPaused == ~(isPlaying /\ isPaused)

\* C3 witness: the interface shows paused while two operations are in flight
C3_Witness == isPaused /\ ~isPlaying /\ Cardinality(tasks) >= 2

\* C4: from a stable Playing state, two togglePlay calls end, once everything
\* has settled, in Playing with the clock running and the backend not paused.
C4_DoubleToggleReturnsToPlaying ==
  (calls = 2 /\ Quiescent)
    => /\ isPlaying /\ ~isPaused
       /\ rafId = "pending" /\ rafCount = 1
       /\ backend.lastTransport = "player_play"

\* C5: at most one volume fade is active at any time.
C5_AtMostOneFade == Cardinality({t \in tasks : t.pc = "fade"}) <= 1

\* C6: once every backend call has been answered and every timer has fired,
\* isBuffering is false again.
C6_BufferingEnds == Quiescent => ~isBuffering

\* C7: a tick of the progress loop moves currentTime forward only when
\* playing and none of isBuffering, isSeeking, isDragging is set; a tick
\* taken under one of these locks leaves currentTime, progress and
\* currentIndex alone and, the clock going on, restarts the baseline.
C7_TickRespectsLocks ==
  [][(\/ store = 1 /\ \E own \in BOOLEAN : loop1(own)
      \/ store = 2 /\ \E own \in BOOLEAN, draw \in 0..1 : loop2(own, draw))
       => /\ (currentTime' > currentTime)
               => (~isBuffering /\ ~isSeeking /\ ~isDragging /\ isPlaying /\ ~isPaused)
          /\ (isBuffering \/ isSeeking \/ isDragging)
               => /\ UNCHANGED <<currentTime, progress, currentIndex>>
                  /\ (isPlaying /\ ~isPaused /\ hasCurrentTrack)
                       => (frameAge' = 0 /\ rafId' = "pending")]_vars

\* C7 witness: the clock runs and has advanced the time, the slider is held
C7_Witness ==
  /\ isDragging /\ isPlaying /\ ~isPaused /\ ~isBuffering /\ ~isSeeking
  /\ rafId = "pending" /\ frameAge > 0 /\ currentTime > 0 /\ tasks = {}

\* C8: player_play is issued only after a player_load_track has been issued.
C8_LoadBeforePlay ==
  \A i \in 1..Len(issued) : issued[i].name = "player_play" => backend.loadIssued

\* C9: the steps of setOutputDevice and setChannelMode leave isPlaying and
\* isPaused as they are.
C9_ReconfigurationKeepsIntent ==
  [][\A t \in tasks :
       (Resumed(t) /\ t.op \in {"setOutputDevice", "setChannelMode"})
         => UNCHANGED <<isPlaying, isPaused>>]_vars

\* C10: no operation's promise rejects.
C10_NoRejectionEscapes == unhandled = {}
\* C11: in the first store, when a backend call of a loadAndPlay chain
\* rejects and the chain's session is current, the step leaves isPlaying and
\* isBuffering false, issues player_set_volume with the configured level and
\* calls the notifier with an error; when the chain is stale the step writes
\* no state and makes no call.
C11_LoadFailureRollsBack ==
  [][\A t \in tasks :
       (store = 1 /\ (\/ loadAndPlay1_afterSetVolume(t, FALSE)
                      \/ \E d \in LoadDurations : loadAndPlay1_afterLoad(t, FALSE, d)))
         => IF t.mySession = playSessionId
            THEN /\ ~isPlaying' /\ ~isBuffering'
                 /\ issued' = <<Cmd("player_set_volume", VolLevel(volume), FALSE),
                                Notify("error")>>
            ELSE /\ UNCHANGED <<storeVars, clockVars>>
                 /\ issued' = <<>>]_vars

\* C11 witness: a load of the current session has just failed
C11_Witness ==
  /\ store = 1 /\ playSessionId > 0 /\ ~isPlaying /\ ~isBuffering
  /\ issued = <<Cmd("player_set_volume", VolLevel(volume), FALSE), Notify("error")>>

\* C12: in the first store a seekTo remembers whether playback was running
\* when it was called; when its player_seek resolves under the current
\* session, a seekTo called while not running issues player_pause and leaves
\* the clock alone, one called while playing restarts the clock and issues
\* no player_pause.
C12_SeekRestoresTransport ==
  [][store = 1 =>
       /\ \A t \in tasks' \ tasks :
            (t.op = "seekTo" /\ t.pc = "delay") => (t.flag = (isPlaying /\ ~isPaused))
       /\ \A t \in tasks :
            (seekTo1_afterSeek(t, TRUE) /\ t.mySession = playSessionId)
              => IF t.flag
                 THEN /\ rafId' = "pending" /\ frameAge' = 0
                      /\ issued' = <<>>
                 ELSE /\ issued' = <<Cmd("player_pause", 0, FALSE)>>
                      /\ UNCHANGED clockVars]_vars

\* C12 witness: a seek made while paused has just sent its player_pause
C12_Witness ==
  /\ store = 1 /\ isPaused /\ ~isPlaying /\ rafId # "pending"
  /\ issued = <<Cmd("player_pause", 0, FALSE)>>
  /\ \E t \in tasks : t.op = "seekTo" /\ t.pc = "player_pause" /\ ~t.flag

\* C13: seekTo(p) on a current track of duration D > 0 sets currentTime to
\* p/100 * D and progress to p in the step of the call, for every p from 0
\* to 100; with no current track or D <= 0 the call changes no state of the
\* store, issues no command and leaves the clock as it is.
C13_SeekSetsPosition ==
  [][\A p \in Percents :
       (\/ store = 1 /\ (seekTo1(p) \/ onProgressChange1(p))
        \/ store = 2 /\ (seekTo2(p) \/ onProgressChange2(p)))
         => IF hasCurrentTrack /\ currentTrack.duration > 0
            THEN /\ 100 * currentTime' = p * currentTrack.duration
                 /\ progress' = p
            ELSE /\ UNCHANGED <<storeVars, clockVars, store2Vars, backend>>
                 /\ issued' = <<>>]_vars

\* C13 witness: a seek to the end of a track of positive duration
C13_Witness ==
  /\ hasCurrentTrack /\ currentTrack.duration > 0 /\ isSeeking
  /\ progress = 100 /\ currentTime = currentTrack.duration
  /\ \E t \in tasks : t.op = "seekTo"

\* the session n captured in this step is the incremented playSessionId and
\* no loadAndPlay still pending holds it
FreshSession(n) ==
  /\ n = playSessionId' /\ playSessionId' > playSessionId
  /\ \A t \in tasks : t.op = "loadAndPlay" => t.mySession < n
  /\ actionTimeoutId.kind = "load" => actionTimeoutId.mySession < n

\* C14: playSessionId never decreases, and every loadAndPlay that starts
\* (a new continuation in the first store, a new timer in the second)
\* captures a session that is strictly greater than the one before and
\* that no earlier loadAndPlay holds.
C14_SessionStrictlyIncreases ==
  [][/\ playSessionId' >= playSessionId
     /\ \A t \in tasks' \ tasks :
          (t.op = "loadAndPlay" /\ t.pc = "delay") => FreshSession(t.mySession)
     /\ (actionTimeoutId' # actionTimeoutId /\ actionTimeoutId'.kind = "load")
          => FreshSession(actionTimeoutId'.mySession)]_vars

\* C14 witness: two loadAndPlay calls are in flight with different sessions
C14_Witness ==
  /\ playSessionId = 2
  /\ \E t \in tasks : t.op = "loadAndPlay" /\ t.mySession = 1
  /\ \/ \E t \in tasks : t.op = "loadAndPlay" /\ t.mySession = 2
     \/ actionTimeoutId.kind = "load" /\ actionTimeoutId.mySession = 2

\* C15: every seekTo call that passes its guard increments playSessionId.
C15_SeekBeginsSession ==
  [][\A p \in Percents :
       (\/ store = 1 /\ (seekTo1(p) \/ onProgressChange1(p))
        \/ store = 2 /\ (seekTo2(p) \/ onProgressChange2(p)))
         => ((hasCurrentTrack /\ currentTrack.duration > 0)
               => playSessionId' > playSessionId)]_vars

\* C16: the queue is empty or currentIndex is within its bounds, and there
\* is a current track exactly when the queue is not empty.
C16_IndexInBounds ==
  /\ Len(queue) = 0 \/ (0 <= currentIndex /\ currentIndex < Len(queue))
  /\ hasCurrentTrack <=> Len(queue) # 0

\* C16 witness: the last of three tracks has been made the current one
C16_Witness == Len(queue) = 3 /\ currentIndex = 2 /\ playSessionId > 0

\* C17: in the second store, nextTrack in shuffle mode on a queue of more
\* than one track leaves currentIndex different from what it was, whatever
\* the draw; on a queue of one track the index stays 0 and the track is
\* loaded again.
C17_ShuffleNeverRepeats ==
  [][(/\ store = 2 /\ playMode = "shuffle" /\ Len(queue) > 0
      /\ \E draw \in 0..2 : nextTrack2(draw) \/ \E own \in BOOLEAN : loop2(own, draw)
      /\ playSessionId' # playSessionId)
       => /\ Len(queue) > 1 => currentIndex' # currentIndex
          /\ Len(queue) = 1 => currentIndex' = 0
          /\ isBuffering' /\ actionTimeoutId'.kind = "load"]_vars

\* C17 witness: a shuffled nextTrack has moved away from the first of three
\* tracks and its load is pending
C17_Witness ==
  /\ store = 2 /\ playMode = "shuffle" /\ Len(queue) = 3 /\ currentIndex # 0
  /\ playSessionId = 1 /\ actionTimeoutId.kind = "load"

\* C18: outside shuffle mode nextTrack moves currentIndex to (i + 1) mod n
\* and prevTrack to (i - 1) mod n on a queue of n > 0 tracks, and each
\* undoes the other from the index it leaves, at both ends of the queue
\* too; while the queue is empty no session has been started and the index
\* is still 0.
C18_NextPrevRoundTrip ==
  [][/\ (playMode # "shuffle" /\ Len(queue) > 0 /\ calls' # calls)
          => /\ (\/ store = 1 /\ nextTrack1
                 \/ store = 2 /\ \E draw \in 0..2 : nextTrack2(draw))
                  => /\ currentIndex' = (currentIndex + 1) % Len(queue)
                     /\ PrevIndex' = currentIndex
             /\ (\/ store = 1 /\ prevTrack1
                 \/ store = 2 /\ prevTrack2)
                  => /\ currentIndex' = (currentIndex - 1) % Len(queue)
                     /\ IF store = 1 THEN NextIndex1' = currentIndex
                        ELSE NextIndex2(0)' = currentIndex
     /\ Len(queue') = 0 => (playSessionId' = 0 /\ currentIndex' = 0)]_vars

\* C18 witness: prevTrack has wrapped from the first of three tracks to the
\* last, outside shuffle mode
C18_Witness ==
  /\ playMode # "shuffle" /\ Len(queue) = 3 /\ currentIndex = 2
  /\ playSessionId = 1 /\ calls = 1 /\ isBuffering

\* an unlocked tick of the running clock that brings currentTime to the
\* duration of the current track or past it
TickAtEnd ==
  /\ \/ store = 1 /\ \E own \in BOOLEAN : loop1(own)
     \/ store = 2 /\ \E own \in BOOLEAN, draw \in 0..2 : loop2(own, draw)
  /\ isPlaying /\ ~isPaused /\ hasCurrentTrack
  /\ ~isDragging /\ ~isBuffering /\ ~isSeeking
  /\ currentTime + frameAge >= currentTrack.duration

\* C19: a tick that reaches the end of the track resets currentTime to 0,
\* issues player_seek(0), keeps currentIndex and playSessionId and goes on
\* ticking in loop mode; in the other modes it runs nextTrack once (one new
\* session, the index advanced, currentTime 0, isBuffering true) and does
\* not reschedule itself.
C19_EndOfTrack ==
  [][TickAtEnd =>
       IF playMode = "loop"
       THEN /\ currentTime' = 0
            /\ issued' = <<Cmd("player_seek", 0, FALSE)>>
            /\ UNCHANGED <<currentIndex, playSessionId>>
            /\ rafId' = "pending" /\ rafCount' = rafCount
       ELSE /\ playSessionId' = playSessionId + 1
            /\ IF store = 2 /\ playMode = "shuffle"
               THEN Len(queue) > 1 => currentIndex' # currentIndex
               ELSE currentIndex' = (currentIndex + 1) % Len(queue)
            /\ currentTime' = 0 /\ isBuffering'
            /\ rafId' = "null" /\ rafCount' = rafCount - 1]_vars

\* C19 witness: the clock has run a track of three to its end outside loop
\* mode and the next track is being loaded
C19_Witness ==
  /\ playMode = "sequence" /\ Len(queue) = 3 /\ calls = 1 /\ playSessionId = 2
  /\ currentIndex = 1 /\ isBuffering /\ currentTime = 0 /\ rafId = "null"

\* C20: at most one frame of the progress loop is scheduled at any time,
\* and a scheduled frame is the one rafId names.
C20_SingleTicker == rafCount <= 1 /\ (rafCount = 1 => rafId = "pending")

\* C20 witness: the clock runs after it has been started more than once
C20_Witness ==
  /\ rafCount = 1 /\ rafId = "pending" /\ calls = 2 /\ tasks = {}
  /\ isPlaying /\ ~isPaused /\ currentTime > 0

\* C21: a seek-end event sets currentTime to its payload when none of
\* isSeeking, isDragging, isBuffering is set and the payload is more than
\* half a second away from currentTime; in every other case it leaves the
\* state of the store and the clock as they are.  Whenever it changes
\* currentTime, it changes nothing else.
C21_SeekEndCorrectsDrift ==
  [][\A x \in SeekEndPayloads :
       seekEndIn(TicksPerSecond, x)
         => /\ IF /\ ~isSeeking /\ ~isDragging /\ ~isBuffering
                  /\ \/ 2 * (currentTime - x) > TicksPerSecond
                     \/ 2 * (x - currentTime) > TicksPerSecond
               THEN currentTime' = x
               ELSE currentTime' = currentTime
            /\ UNCHANGED <<isPlaying, isPaused, volume, progress, playMode,
                           isDragging, isBuffering, isSeeking, isFading,
                           playSessionId, activeDevice, queue, currentIndex,
                           clockVars, store2Vars>>]_vars

\* C21 witness: a seek-end event has moved currentTime past the first
\* second, where no other step of the scenario puts it, no lock being held
C21_Witness ==
  /\ calls = 1 /\ tasks = {} /\ ~isSeeking /\ ~isDragging /\ ~isBuffering
  /\ currentTime > TicksPerSecond /\ progress = 0 /\ issued = <<>>

\* C22: in the first store, while a volume fade is in progress, a change of
\* volume by the user issues no player_set_volume command.
C22_FadeSuppressesSlider ==
  [][(/\ store = 1 /\ \E v \in Volumes : setVolume1(v)
      /\ \E t \in tasks : t.pc = "fade")
       => \A i \in 1..Len(issued') : issued'[i].name # "player_set_volume"]_vars

\* C23: in the first store, after togglePlay in the Playing state,
\* a togglePlay issues player_pause only when its fade-out has made its
\* last tick, and the state turns to paused (isPlaying false, isPaused
\* true) only in the step in which the answer to player_pause arrives.
C23_PauseAfterFadeThenState ==
  [][store = 1 =>
       /\ \A t \in tasks :
            (/\ Resumed(t) /\ t.op = "togglePlay"
             /\ \E i \in 1..Len(issued') : issued'[i].name = "player_pause")
              => (t.flag /\ t.pc = "delay" /\ t.k = FadeSteps)
       /\ (isPlaying /\ ~isPlaying' /\ isPaused')
            => \E t \in tasks :
                 Resumed(t) /\ t.op = "togglePlay" /\ t.pc = "player_pause"]_vars

\* C23 as amended: in the first store, togglePlay called in the Playing
\* state turns the state to paused and stops the clock in the call itself,
\* issuing nothing and starting the fade-out; a togglePlay issues
\* player_pause only when its fade-out has made its last tick.
C23_StateThenFadeThenPause ==
  [][store = 1 =>
       /\ (togglePlay1 /\ isPlaying /\ hasCurrentTrack)
            => /\ ~isPlaying' /\ isPaused' /\ rafId' = "null" /\ issued' = <<>>
               /\ \E t \in tasks' \ tasks :
                    /\ t.op = "togglePlay" /\ t.pc = "fade" /\ t.flag /\ t.k = 0
                    /\ t.startVol = volume /\ t.endVol = 0
       /\ \A t \in tasks :
            (/\ Resumed(t) /\ t.op = "togglePlay"
             /\ \E i \in 1..Len(issued') : issued'[i].name = "player_pause")
              => (t.flag /\ t.pc = "delay" /\ t.k = FadeSteps)]_vars

\* C23 witness: the fade-out is over and player_pause has just been issued,
\* the state showing paused
C23_Witness ==
  /\ store = 1 /\ ~isPlaying /\ isPaused /\ rafId = "null"
  /\ issued = <<Cmd("player_pause", 0, FALSE)>>
  /\ \E t \in tasks : t.op = "togglePlay" /\ t.pc = "player_pause" /\ t.k = FadeSteps

\* the names of the calls a step makes, in their order
Names(seq) == [i \in 1..Len(seq) |-> seq[i].name]

\* C24: a setOutputDevice called while paused issues set_output_device
\* first; once that is answered it sets activeDevice to the new device and
\* issues player_seek with the displayed time, or, the answer being a
\* rejection, keeps activeDevice, issues no player_seek and tells the
\* notifier of an error; after the seek it issues player_pause; and when
\* player_pause is answered, isPlaying is false and isPaused is true.
C24_PausedDeviceSwitch ==
  [][\A t \in tasks :
       (Resumed(t) /\ t.op = "setOutputDevice" /\ t.flag)
         => /\ (t.pc = "delay")
                 => (Names(issued') = <<"set_output_device">> /\ issued'[1].arg = t.arg)
            /\ (\/ store = 1 /\ performWithStateCheck1_action(t, TRUE)
                \/ store = 2 /\ performWithStateCheck2_action(t, TRUE))
                 => /\ activeDevice' = t.arg
                    /\ Names(issued') = <<"notifyUI", "player_seek">>
                    /\ issued'[1].arg = "info" /\ issued'[2].arg = currentTime
            /\ (\/ store = 1 /\ performWithStateCheck1_action(t, FALSE)
                \/ store = 2 /\ performWithStateCheck2_action(t, FALSE))
                 => /\ activeDevice' = activeDevice
                    /\ Names(issued') = <<"notifyUI", "player_pause">>
                    /\ issued'[1].arg = "error"
            /\ (t.pc = "player_seek")
                 => \E i \in 1..Len(issued') : issued'[i].name = "player_pause"
            /\ (\/ store = 1 /\ performWithStateCheck1_pause(t, TRUE)
                \/ store = 2 /\ performWithStateCheck2_last(t, TRUE))
                 => (~isPlaying' /\ isPaused')]_vars

\* C25: while isDownloadingFFmpeg is true, a switchEngine call for any
\* engine id issues no init_audio_engine, leaves activeEngine and
\* isDownloadingFFmpeg as they were, suspends nothing, and tells the
\* notifier of an error and nothing else.
C25_NoSwitchWhileDownloading ==
  [][\A e \in Engines :
       (switchEngine(e) /\ isDownloadingFFmpeg)
         => /\ Names(issued') = <<"notifyUI">>
            /\ issued'[1].arg = "error"
            /\ activeEngine' = activeEngine
            /\ isDownloadingFFmpeg' = isDownloadingFFmpeg
            /\ tasks' = tasks]_vars

\* C25: a switchEngine call has been turned away during a download
C25_Witness ==
  /\ isDownloadingFFmpeg /\ calls = MaxCalls
  /\ Names(issued) = <<"notifyUI">> /\ issued[1].arg = "error"
  /\ activeEngine = "ffmpeg" /\ backendEngine.job = "running"


\* C26: when init_audio_engine is rejected, switchEngine tells the notifier
\* of an error and asks get_current_engine; when that is answered with an
\* engine id, activeEngine becomes that id, whatever the optimistic value
\* was; and answered or rejected, isDownloadingFFmpeg ends false.
C26_RejectedSwitchRollsBack ==
  [][\A t \in tasks :
       /\ switchEngine_afterInit(t, "REJECTED")
            => /\ Names(issued') = <<"notifyUI", "get_current_engine">>
               /\ issued'[1].arg = "error"
               /\ \E u \in tasks' \ tasks : u.op = "switchEngine" /\ u.pc = "sync"
       /\ (Resumed(t) /\ t.op = "switchEngine" /\ t.pc = "sync")
            => /\ ~isDownloadingFFmpeg'
               /\ syncEngine_answered(t, TRUE) => activeEngine' = backendEngine.current]_vars

\* C26: the one switchEngine call made was rejected and its rollback is
\* over: nothing is suspended, the backend never became ready and runs no
\* download, and activeEngine shows the backend's engine
C26_Witness ==
  /\ calls = 1 /\ tasks = {} /\ ~hasAudioInitialized
  /\ backendEngine.job = "idle" /\ ~backendEngine.installed
  /\ ~isDownloadingFFmpeg /\ ffmpegProgress = 0
  /\ activeEngine = "galaxy" /\ backendEngine.current = "galaxy"


\* C27: when the backend reports ffmpeg-status 'error' for the download
\* that a switchEngine call started, the listener tells the notifier of an
\* error and asks get_current_engine, so that activeEngine is rolled back
\* to the engine the backend runs.
C27_DownloadFailureRollsBack ==
  [][(ffmpegStatus("error") /\ activeEngine # backendEngine.current)
       => /\ \E i \in 1..Len(issued') :
               issued'[i].name = "notifyUI" /\ issued'[i].arg = "error"
          /\ \/ activeEngine' = backendEngine.current
             \/ \E i \in 1..Len(issued') : issued'[i].name = "get_current_engine"]_vars


C29_ReadySwitchResumes ==
  [][/\ \A e \in Engines :
          (switchEngine(e) /\ ~isDownloadingFFmpeg)
            => \E u \in tasks' \ tasks :
                 u.pc = "init" /\ u.flag = isPlaying /\ u.arg = currentTime
     /\ \A t \in tasks :
          /\ (switchEngine_afterInit(t, "READY") /\ t.flag /\ hasCurrentTrack)
               => /\ Names(issued') = <<"notifyUI", "player_load_track">>
                  /\ issued'[2].arg = currentTrack.path
          /\ (switchEngine_afterInit(t, "READY") /\ ~t.flag)
               => /\ Names(issued') = <<"notifyUI">>
                  /\ tasks' = tasks \ {t}
                  /\ UNCHANGED <<isPlaying, isPaused, backend>>
          /\ switchEngine_afterLoad(t, TRUE)
               => Names(issued') = <<"player_seek">> /\ issued'[1].arg = t.arg
          /\ switchEngine_afterSeek(t, TRUE)
               => Names(issued') = <<"player_play">>
          /\ switchEngine_afterPlay(t, TRUE)
               => isPlaying' /\ ~isPaused' /\ tasks' = tasks \ {t}]_vars

\* C29: the one switchEngine call, made while a track played, has been
\* answered READY and has reloaded, sought and resumed
C29_Witness ==
  /\ calls = 1 /\ tasks = {} /\ volumeTimers = 1
  /\ isPlaying /\ ~isPaused /\ hasAudioInitialized
  /\ backend.loadIssued /\ backend.lastTransport = "player_play"
  /\ activeEngine = backendEngine.current


\* C30: the cold-start wake-up is issued at most once: when the timer of
\* loadAndPlay issues set_output_device, hasAudioInitialized being false,
\* no wake-up issued by an earlier timer is still awaited.
C30_WakeUpOnce ==
  [][(loadAndPlay2_timer /\ ~hasAudioInitialized)
       => ~\E t \in tasks : t.op = "loadAndPlay" /\ t.pc = "wake"]_vars


\* C31: no two queue entries share a path; and an import-track event
\* leaves currentIndex and the entries already queued where they are, and
\* appends one track with the event's path when no queued track has that
\* path, nothing otherwise.
C31_ImportKeepsPathsUnique ==
  /\ [](\A i, j \in 1..Len(queue) : queue[i].path = queue[j].path => i = j)
  /\ [][\A p \in Paths :
          importTrack(p)
            => /\ currentIndex' = currentIndex
               /\ SubSeq(queue', 1, Len(queue)) = queue
               /\ IF \E i \in 1..Len(queue) : queue[i].path = p
                  THEN queue' = queue
                  ELSE /\ Len(queue') = Len(queue) + 1
                       /\ queue'[Len(queue')].path = p]_vars

\* C31: two tracks were imported into the empty queue, in the order of
\* their events, and two navigation calls have ended on the second
C31_Witness ==
  /\ Len(queue) = 2 /\ queue[1].path = 2 /\ queue[2].path = 1
  /\ currentIndex = 1 /\ playSessionId = 2


\* C32: a loadAndPlay call made with a current track sets isPlaying,
\* clears isPaused, sets isBuffering, resets currentTime and progress, stops
\* the clock and adds one to playSessionId in the step of the call, and
\* that step issues no backend command: the commands come from the
\* continuation or the timer it leaves behind. Made with no current track
\* it changes nothing.
C32_LoadAndPlayIsSynchronous ==
  [][/\ ((loadAndPlay1 \/ loadAndPlay2) /\ hasCurrentTrack)
          => /\ isPlaying' /\ ~isPaused' /\ isBuffering'
             /\ currentTime' = 0 /\ progress' = 0
             /\ rafId' = "null" /\ rafCount' = StopCount(rafId, rafCount)
             /\ playSessionId' = playSessionId + 1
             /\ issued' = <<>> /\ backend' = backend
             /\ IF store = 1
                THEN \E t \in tasks' \ tasks :
                       t.op = "loadAndPlay" /\ t.pc = "delay"
                       /\ t.mySession = playSessionId'
                ELSE /\ actionTimeoutId'.kind = "load"
                     /\ actionTimeoutId'.mySession = playSessionId'
     /\ ((loadAndPlay1 \/ loadAndPlay2) /\ ~hasCurrentTrack)
          => UNCHANGED vars]_vars

\* C32: the one call made has started a load of the current track and no
\* command has gone to the backend yet
C32_Witness ==
  /\ calls = 1 /\ playSessionId = 1 /\ hasCurrentTrack
  /\ isPlaying /\ ~isPaused /\ isBuffering
  /\ currentTime = 0 /\ progress = 0 /\ rafId = "null"
  /\ issued = <<>> /\ ~backend.loadIssued
  /\ \/ \E t \in tasks : t.op = "loadAndPlay" /\ t.pc = "delay"
     \/ actionTimeoutId.kind = "load"


\* the distance of level from the level of volume v, in 1/100000
Apart(level, v) ==
  IF level >= VolLevel(v) THEN level - VolLevel(v) ELSE VolLevel(v) - level

\* the fade of continuation t goes on after this step
FadeGoesOn(t) ==
  \E u \in tasks' :
    u.pc = "fade" /\ u.op = t.op /\ u.id = t.id /\ u.mySession = t.mySession

\* C33: every frame of a fade from a to b issues one player_set_volume
\* whose level lies between a and b and is no farther from b than the
\* level of the frame before (a for the first frame); the frame that ends
\* the fade issues exactly b, clears isFading and lets the operation that
\* awaits the fade go on, and no earlier frame does either.
C33_FadeReachesTarget ==
  [][\A t \in tasks :
       (t.pc = "fade" /\ Resumed(t))
         => /\ Names(issued') = <<"player_set_volume">>
            /\ Apart(issued'[1].arg, t.startVol) + Apart(issued'[1].arg, t.endVol)
                 = Apart(VolLevel(t.startVol), t.endVol)
            /\ Apart(issued'[1].arg, t.endVol) <= Apart(FadeLevel(t, t.k), t.endVol)
            /\ IF FadeGoesOn(t)
               THEN /\ isFading' = isFading
                    /\ \A u \in tasks' \ tasks : u.pc = "fade" /\ u.k > t.k
               ELSE /\ issued'[1].arg = VolLevel(t.endVol)
                    /\ ~isFading'
                    /\ \A u \in tasks' \ tasks :
                         u.op = t.op /\ u.pc = "delay" /\ u.k = FadeSteps]_vars

\* C33: the fade-out of a pause has run to its end: its last frame has
\* sent level 0, isFading is clear and togglePlay goes on to its delay
C33_Witness ==
  /\ ~isFading
  /\ Names(issued) = <<"player_set_volume">> /\ issued[1].arg = 0
  /\ \E t \in tasks :
       /\ t.op = "togglePlay" /\ t.pc = "delay" /\ t.flag
       /\ t.k = FadeSteps /\ t.startVol > 0 /\ t.endVol = 0


\* C34: when the player_seek of a seekTo is rejected, isSeeking is false
\* afterwards, in the first store isBuffering too, and isPlaying, isPaused,
\* currentIndex and playSessionId are not changed.
C34_SeekFailureClearsLocks ==
  [][\A t \in tasks :
       (seekTo1_afterSeek(t, FALSE) \/ seekTo2_afterSeek(t, FALSE))
         => /\ ~isSeeking'
            /\ store = 1 => ~isBuffering'
            /\ UNCHANGED <<isPlaying, isPaused, currentIndex, playSessionId>>]_vars

\* C34, amended: when the player_seek of a seekTo is rejected, isPlaying,
\* isPaused, currentIndex and playSessionId are not changed. The second
\* store clears isSeeking and leaves isBuffering. The first store clears
\* isSeeking and isBuffering when playSessionId is still the session of the
\* call, and writes nothing at all when a later session has begun.
C34_SeekFailureClearsOwnLocks ==
  [][\A t \in tasks :
       /\ seekTo2_afterSeek(t, FALSE)
            => /\ ~isSeeking'
               /\ UNCHANGED <<isPlaying, isPaused, currentIndex, playSessionId,
                              isBuffering>>
       /\ seekTo1_afterSeek(t, FALSE)
            => IF t.mySession = playSessionId
               THEN /\ ~isSeeking' /\ ~isBuffering'
                    /\ UNCHANGED <<isPlaying, isPaused, currentIndex, playSessionId>>
               ELSE UNCHANGED <<storeVars, clockVars>>]_vars

\* C34: a seekTo to the middle of the playing track was rejected: the
\* locks are clear, the track still counts as playing, nothing is pending
C34_Witness ==
  /\ calls = 2 /\ tasks = {} /\ unhandled = {} /\ playSessionId = 1
  /\ isPlaying /\ ~isPaused /\ ~isSeeking /\ ~isBuffering /\ ~isDragging
  /\ progress = 50 /\ rafId = "null" /\ backend.state = "playing"


\* C35: in the first store, whenever nothing is pending and a track has
\* been loaded, the backend plays exactly when isPlaying is true and
\* isPaused is false.
C35_BackendFollowsInterface ==
  (store = 1 /\ tasks = {} /\ backend.state # "idle")
    => (backend.state = "playing" <=> (isPlaying /\ ~isPaused))


\* C36: in the first store, while a loadAndPlay of the current session
\* waits for the answer to player_load_track, isBuffering is true and no
\* frame of the progress clock is scheduled.
C36_BufferingWhileLoading ==
  (store = 1 /\ \E t \in tasks : /\ t.op = "loadAndPlay" /\ t.pc = "load_track"
                                 /\ t.mySession = playSessionId)
    => (isBuffering /\ rafId = "null")


\* C37: isSeeking is true in every state in which a player_seek issued by
\* a seekTo is awaited (in the first store: by a seekTo of the session that
\* is current); the answer to an earlier seekTo does not clear it.
C37_SeekingWhileSeekPending ==
  (\E t \in tasks : /\ t.op = "seekTo" /\ t.pc = "player_seek"
                    /\ store = 1 => t.mySession = playSessionId)
    => isSeeking


\* C38: whenever nothing is pending, a track is current, isPlaying is
\* true, isPaused is false and none of isBuffering, isSeeking, isDragging
\* is set, a frame of the progress clock is scheduled.
C38_ClockRunsWhilePlaying ==
  (/\ Quiescent /\ hasCurrentTrack
   /\ isPlaying /\ ~isPaused
   /\ ~isBuffering /\ ~isSeeking /\ ~isDragging)
    => rafId = "pending"


\* continuation t is the fade-in of loadAndPlay or of the resume branch of
\* togglePlay in the first store
FadeIn(t) ==
  /\ store = 1 /\ t.pc = "fade"
  /\ t.op = "loadAndPlay" \/ (t.op = "togglePlay" /\ ~t.flag)

\* C39: in the first store, the frame that ends a fade-in, when it leaves
\* no other fade and no player_set_volume pending, sends the level of the
\* volume the store holds at that moment.
C39_FadeInEndsAtCurrentVolume ==
  [][\A t \in tasks :
       (/\ FadeIn(t) /\ Resumed(t) /\ ~FadeGoesOn(t)
        /\ \A u \in tasks' : u.pc \notin {"fade", "set_volume"})
         => /\ Names(issued') = <<"player_set_volume">>
            /\ issued'[1].arg = VolLevel(volume')]_vars

====
